---- MODULE Spec2Model ----
(***************************************************************************)
(* The volume bot: trade execution (scripts/volume_bot/trader.py, Spec)    *)
(* the wallet registry (scripts/volume_bot/multi_wallet_manager.py,        *)
(* SpecRegistry), the continuous-trading loop and the retry decorator of   *)
(* scripts/volume_bot/volume_generator.py (SpecScheduler, SpecGateway) and *)
(* the pure computations of the two bots (SpecCalc), each in its own       *)
(* section of the module; then two managers on one wallets file            *)
(* (SpecPeers), the supply release bot (scripts/supply_release_bot/bot.py, *)
(* SpecSupply) and fund_wallets (SpecFunding). SpecLive is one call of     *)
(* swap_tokens_for_tokens with fair progress of the call.                  *)
(*                                                                         *)
(* The three methods of Trader that submit transactions are modelled as    *)
(* one sequential program with three frames:                               *)
(*   sw  swap_tokens_for_tokens   ap  approve_token   ue  swap_usdc_for_eth*)
(* A self-invocation in tail position (`return self.f(...)` inside an      *)
(* except clause) replaces the frame; no frame catches an exception of a   *)
(* callee (swap_usdc_for_eth catches its own), so a raise unwinds to the   *)
(* caller of swap_tokens_for_tokens.                                       *)
(*                                                                         *)
(* The chain is the environment: allowances, token balances and the        *)
(* submitted transactions are state; whether a submission is accepted,     *)
(* whether and how a transaction is mined within a receipt wait, the       *)
(* factory/RPC answer and the WETH balance read are chosen                 *)
(* nondeterministically.                                                   *)
(***************************************************************************)
EXTENDS Integers, Sequences, FiniteSets, TLC

VARIABLES sw, ap, ue, ret, result, txs, allowance, balance, poolCreated,
          calls, hist,
          wallets, wallets_file, mgr, last,
          loop, stdin,
          wrapper, current_rpc_index,
          calc,
          peers,
          supply,
          funding

\* the state of the Trader and of the chain
trader == <<sw, ap, ue, ret, result, txs, allowance, balance, poolCreated,
            calls, hist>>

\* the state of the MultiWalletManager and of its file
registry == <<wallets, wallets_file, mgr, last>>

\* the state of start_continuous_trading and the terminal's input
scheduler == <<loop, stdin>>

\* the state of a call wrapped by retry_with_backoff and the bot's endpoint
gateway == <<wrapper, current_rpc_index>>

\* the managers that share the wallets file, the supply release bot with
\* the token's chain, and one run of fund_wallets
others == <<peers, supply, funding>>

vars == <<trader, registry, scheduler, gateway, calc, others>>

\* what the steps of one component leave alone
exceptTrader == <<registry, scheduler, gateway, calc, others>>
exceptRegistry == <<trader, scheduler, gateway, calc, others>>
exceptScheduler == <<trader, registry, gateway, calc, others>>
exceptGateway == <<trader, registry, scheduler, calc, others>>
exceptCalc == <<trader, registry, scheduler, gateway, others>>
exceptPeers == <<trader, wallets, mgr, last, scheduler, gateway, calc,
                 supply, funding>>
exceptSupply == <<trader, registry, scheduler, gateway, calc, peers,
                  funding>>
exceptFunding == <<trader, registry, scheduler, gateway, calc, peers,
                   supply>>

-----------------------------------------------------------------------------
(* Bounds *)

MaxCalls == 1
MaxBalance == 5
UsdcDecimals == 1
MaxWallets == 5
MaxTrades == 1
MaxTradeAmount == 2
MaxWaitPolls == 2
MaxDeadEndpoints == 5
MaxAmountIn == 11
MaxSqrtp == 4
MaxLiveGas == 120

-----------------------------------------------------------------------------
(* Tokens and amounts *)

MYSO == "MYSO"
USDC == "USDC"
Tokens == {MYSO, USDC}

OtherToken(t) == IF t = MYSO THEN USDC ELSE MYSO

\* 2**256-1, scaled: larger than every amount and balance of the model
Unlimited == 1000

InitBalances == {0, MaxBalance}
InitAllowances == {0, Unlimited}
AmountsIn == {1, MaxBalance}

Min(a, b) == IF a < b THEN a ELSE b

-----------------------------------------------------------------------------
(* Values returned by the methods *)

NoValue == [kind |-> "none", tx |-> 0, err |-> "none"]
PyNone == [kind |-> "None", tx |-> 0, err |-> "none"]
Sentinel == [kind |-> "0x0", tx |-> 0, err |-> "none"]
to_hex(t) == [kind |-> "hash", tx |-> t, err |-> "none"]
Exc(e) == [kind |-> "exc", tx |-> 0, err |-> e]

\* `if eth_swap_tx:` - None is falsy, a hash string is truthy
Truthy(v) == v.kind = "hash"

-----------------------------------------------------------------------------
(* Decisions of the code *)

\* trader.py:423, 431-433
PoolExists(resp) == resp = "pool"

\* a plausible slip: approve_token is called without the comparison
NeedsApprovalAlways(allow, amount_in) == TRUE

\* trader.py:736
NeedsApproval(allow, amount_in) == allow < amount_in

\* a plausible slip: any readable allowance counts as approved
AlreadyApprovedAny(allow, amount) == allow >= 0

\* trader.py:288
AlreadyApproved(allow, amount) == allow >= amount

\* trader.py:740
ApprovalWasSent(approve_tx) == approve_tx # Sentinel

\* a plausible slip: the allowance is re-read but not compared
ApprovalNeverShort(new_allowance, amount_in) == FALSE

\* trader.py:749
ApprovalStillShort(new_allowance, amount_in) == new_allowance < amount_in

\* a plausible slip: the retry flag is not consulted
SwapShouldRecoverAlways(err, retry_after_eth_swap) ==
    err = "insufficient"

\* trader.py:837
SwapShouldRecover(err, retry_after_eth_swap) ==
    err = "insufficient" /\ ~retry_after_eth_swap

\* trader.py:327
ApproveShouldRecover(err, retry_after_eth_swap) ==
    err = "insufficient" /\ ~retry_after_eth_swap

\* trader.py:334
IsCircular(token_address) == token_address = USDC

\* a plausible slip: one more self-invocation is allowed
RetriesExhaustedLate(retry_count) == retry_count >= 3

\* trader.py:442
RetriesExhausted(retry_count) == retry_count >= 2

\* a plausible slip: the fixed amount is capped by the whole balance
RecoverySwapAmountOfBalance(usdc_balance, usdc_decimals) ==
    Min((10 ^ usdc_decimals) \div 10, usdc_balance)

\* trader.py:458  min(int(0.1 * 10**d), int(balance * 0.2))
RecoverySwapAmount(usdc_balance, usdc_decimals) ==
    Min((10 ^ usdc_decimals) \div 10, usdc_balance \div 5)

-----------------------------------------------------------------------------
(* The chain *)

Pending(i) == txs[i].status = "pending"
Mined(i) == txs[i].status \in {"ok", "reverted"}
PendingTxs == {i \in DOMAIN txs : Pending(i)}

\* Every transaction is built with nonce = get_transaction_count(address),
\* the number of mined transactions of the wallet, read just before the
\* submission: all transactions in flight carry the same nonce, and the chain
\* mines at most one of them (StatusAfterMining).
NewTx(kind, token, amount) ==
    [kind |-> kind, token |-> token, amount |-> amount, status |-> "pending"]

\* a transfer of `amount` by the router needs the balance and the allowance
CanSucceed(i) ==
    IF txs[i].kind \in {"swap", "recovery_swap"}
    THEN /\ balance[txs[i].token] >= txs[i].amount
         /\ allowance[txs[i].token] >= txs[i].amount
    ELSE TRUE

\* one transaction per nonce is mined; its rivals are dropped
StatusAfterMining(i, status) ==
    [j \in DOMAIN txs |->
        IF j = i THEN [txs[j] EXCEPT !.status = status]
        ELSE IF Pending(j)
             THEN [txs[j] EXCEPT !.status = "dropped"]
             ELSE txs[j]]

AllowanceAfter(i, status) ==
    IF status # "ok" THEN allowance
    ELSE IF txs[i].kind \in {"approve", "recovery_approve"}
         THEN [allowance EXCEPT ![txs[i].token] = txs[i].amount]
    ELSE IF txs[i].kind \in {"swap", "recovery_swap"}
              /\ allowance[txs[i].token] # Unlimited
         THEN [allowance EXCEPT ![txs[i].token] = @ - txs[i].amount]
    ELSE allowance

BalanceAfter(i, status) ==
    IF status # "ok" THEN balance
    ELSE IF txs[i].kind = "swap"
         THEN [balance EXCEPT ![txs[i].token] = @ - txs[i].amount,
                              ![OtherToken(txs[i].token)] = @ + txs[i].amount]
    ELSE IF txs[i].kind = "recovery_swap"
         THEN [balance EXCEPT ![txs[i].token] = @ - txs[i].amount]
    ELSE balance

MineNow(i, status) ==
    /\ Pending(i)
    /\ status = "ok" => CanSucceed(i)
    /\ txs' = StatusAfterMining(i, status)
    /\ allowance' = AllowanceAfter(i, status)
    /\ balance' = BalanceAfter(i, status)

\* w3.eth.wait_for_transaction_receipt(tx_hash, timeout): the receipt of a
\* mined transaction, or TimeExhausted
wait_for_transaction_receipt(i, outcome) ==
    \/ /\ Mined(i)
       /\ outcome = txs[i].status
       /\ UNCHANGED <<txs, allowance, balance>>
    \/ /\ outcome \in {"ok", "reverted"}
       /\ MineNow(i, outcome)
    \/ /\ ~Mined(i)
       /\ outcome = "timeout"
       /\ UNCHANGED <<txs, allowance, balance>>

\* w3.eth.send_raw_transaction(signed_tx), accepted by the node
send_raw_transaction(kind, token, amount) ==
    txs' = Append(txs, NewTx(kind, token, amount))

Submitted(h) ==
    [h EXCEPT !.txsThisCall = @ + 1,
              !.submitWhilePending = @ \/ PendingTxs # {}]

-----------------------------------------------------------------------------
(* Values of the wallet registry (multi_wallet_manager.py, wallet.py) *)

\* the notional value of a trade that a caller reports
TradeAmounts == {2}

\* an address string: the checksummed form of the account, or its lower case
AddressOf(private_key) == [id |-> private_key, lower |-> FALSE]
lower(address) == [address EXCEPT !.lower = TRUE]

\* a plausible slip: the comparison is dropped and the first record is taken
SameAddressAny(a, b) == TRUE

\* multi_wallet_manager.py:162
SameAddress(a, b) == lower(a) = lower(b)

Wallet(private_key) == [private_key |-> private_key]
get_address(wallet) == AddressOf(wallet.private_key)

\* multi_wallet_manager.py:102-110
NewWalletData(wallet_info) ==
    [address |-> wallet_info.address,
     private_key |-> wallet_info.private_key,
     active |-> TRUE,
     stats |-> [trades |-> 0, volume |-> 0]]

\* Python's seq[lo:hi]: a negative bound counts from the end, -0 is 0
PyIndex(i, n) == IF i < 0 THEN (IF i + n < 0 THEN 0 ELSE i + n) ELSE Min(i, n)
PySlice(seq, lo, hi) ==
    SubSeq(seq, PyIndex(lo, Len(seq)) + 1, PyIndex(hi, Len(seq)))

Range(seq) == {seq[i] : i \in DOMAIN seq}

\* the wallets file: absent, truncated by open(path, 'w'), or written
AbsentFile == [state |-> "absent", data |-> <<>>]
TruncatedFile == [state |-> "truncated", data |-> <<>>]
WrittenFile(wallets_data) == [state |-> "written", data |-> wallets_data]

NoCall == [name |-> "none", count |-> 0, address |-> AddressOf(0),
           amount |-> 0, is_buy |-> FALSE, wallets |-> <<>>, data |-> <<>>,
           ret |-> [kind |-> "none", items |-> <<>>]]
NoManager == [pc |-> "down", method |-> "none", count |-> 0,
              wallets_data |-> <<>>, deactivated |-> <<>>]
IdleManager == [NoManager EXCEPT !.pc = "idle"]

Returns(kind, items) == [kind |-> kind, items |-> items]

-----------------------------------------------------------------------------
(* Values of the scheduler, the retry decorator and the computations *)

\* start_continuous_trading before it is called; the fields after `swap` say
\* what the current iteration has done so far
IdleLoop == [pc |-> "idle", waited |-> 0, wait_seconds |-> 0,
             trade_amount |-> 0, usdc_balance |-> 0,
             token_amount |-> 0, token_balance |-> 0,
             operation |-> "none", swap |-> "none",
             submitted |-> 0, receipt |-> "none", updates |-> 0,
             ended |-> "none", entered |-> FALSE, stop_read |-> FALSE,
             stop_at |-> "none", trades_after_stop |-> 0]

\* sys.stdin: no keypress waiting to be read
NoKey == FALSE

\* the wrapper of retry_with_backoff before it is called
IdleWrapper == [pc |-> "idle", retries |-> 0, current_backoff |-> 0,
                invocations |-> 0, slept |-> <<>>, err |-> "none",
                outcome |-> "none", switched |-> 0, failed_at |-> 0,
                swaps |-> 0]

NoCalc == [fn |-> "none", done |-> FALSE]

\* the processes that hold a MultiWalletManager on the same wallets file
Managers == {"bot", "cli"}

\* no manager constructed yet; call is the last call made, by whom, and the
\* records of the file before it
NoPeers == [up |-> [m \in Managers |-> FALSE],
            wallets |-> [m \in Managers |-> <<>>],
            call |-> [by |-> "none", name |-> "none", before |-> <<>>]]

\* SupplyReleaseBot after __init__ with no state file: {"released": 0}
\* (bot.py:66-71); minted and pending are the token contract's side
IdleSupply == [pc |-> "idle", runs |-> 0, amount |-> 0, released |-> 0,
               stored |-> 0, minted |-> 0, pending |-> 0]

\* fund_wallets before it is called
IdleFunding == [pc |-> "idle", asset |-> "none", n |-> 0, i |-> 0,
                first_nonce |-> 0, nonce |-> 0, sent |-> <<>>,
                confirmations |-> 0, attempts |-> 0,
                confirmed_hashes |-> {}]

-----------------------------------------------------------------------------
(* Frames *)

IdleSw == [pc |-> "idle", token_in |-> MYSO, amount_in |-> 0,
           retry_after_eth_swap |-> FALSE, tx |-> 0, err |-> "none"]
IdleAp == [pc |-> "idle", token |-> MYSO, amount |-> 0, retry_after_eth_swap |-> FALSE,
           tx |-> 0, err |-> "none"]
IdleUe == [pc |-> "idle", retry_count |-> 0, swap_amount |-> 0,
           tx |-> 0, swap_tx |-> 0, caller |-> "none",
           swap_status |-> "none", unwrap_status |-> "none"]

InitHist == [recoveries |-> 0, txsThisCall |-> 0,
             submitWhilePending |-> FALSE,
             lastAllow |-> [t \in Tokens |-> -1],
             poolResp |-> "none", approvals |-> 0, swaps |-> 0,
             firstAllow |-> -1, swap_status |-> "none",
             swapCalls |-> 0, startAllow |-> -1]

InSwap == sw.pc # "idle" /\ ap.pc = "idle" /\ ue.pc = "idle"
InApprove == ap.pc # "idle" /\ ue.pc = "idle"
InRecovery == ue.pc # "idle"
Idle == sw.pc = "idle" /\ ap.pc = "idle" /\ ue.pc = "idle"

\* an exception leaving swap_tokens_for_tokens
Raise(e) ==
    /\ sw' = [sw EXCEPT !.pc = "idle"]
    /\ ap' = [ap EXCEPT !.pc = "idle"]
    /\ ue' = [ue EXCEPT !.pc = "idle"]
    /\ ret' = NoValue
    /\ result' = Exc(e)

\* A Trader is constructed for every trade (volume_generator.py:476-481). The
\* wallet can still have the approval of an earlier trade in flight, when the
\* receipt wait of that trade timed out.
InitInFlight ==
    {<<>>} \cup {<<NewTx("approve", t, Unlimited)>> : t \in Tokens}

Init ==
    /\ sw = IdleSw
    /\ ap = IdleAp
    /\ ue = IdleUe
    /\ ret = NoValue
    /\ result = NoValue
    /\ txs \in InitInFlight
    /\ allowance \in [Tokens -> InitAllowances]
    /\ balance \in [Tokens -> InitBalances]
    /\ poolCreated \in BOOLEAN
    /\ calls = 0
    /\ hist = InitHist
    /\ peers = NoPeers
    /\ supply = IdleSupply
    /\ funding = IdleFunding
    /\ wallets = <<>>
    /\ wallets_file = AbsentFile
    /\ mgr = NoManager
    /\ last = NoCall
    /\ loop = IdleLoop
    /\ stdin = NoKey
    /\ wrapper = IdleWrapper
    /\ current_rpc_index = 0
    /\ calc = NoCalc

-----------------------------------------------------------------------------
(* The caller: volume_generator.py checks the balance, then calls           *)
(* swap_tokens_for_tokens(token_in, token_out, amount_in, pool_key)         *)

\* a plausible slip: the pool check placed after the approval
SwapPcAfterPoolLate(pc) ==
    CASE pc = "entry" -> "allow"
      [] pc = "allow" -> "pool"
      [] pc = "pool" -> "send"

\* statement order of swap_tokens_for_tokens: pool check, allowance, submit
SwapPcAfter(pc) ==
    CASE pc = "entry" -> "pool"
      [] pc = "pool" -> "allow"
      [] pc = "allow" -> "send"

EnterSwap(token_in, amount_in, retry_after_eth_swap) ==
    [IdleSw EXCEPT !.pc = SwapPcAfter("entry"), !.token_in = token_in,
                   !.amount_in = amount_in, !.retry_after_eth_swap = retry_after_eth_swap]

\* the hashes of earlier calls are no longer referred to: only the
\* transactions still in flight matter to the next call
InFlight == SelectSeq(txs, LAMBDA t : t.status = "pending")

CallSwap ==
    /\ Idle
    /\ calls < MaxCalls
    /\ \E token_in \in Tokens, amount_in \in AmountsIn :
          /\ balance[token_in] >= amount_in
          /\ sw' = EnterSwap(token_in, amount_in, FALSE)
          /\ hist' = [InitHist EXCEPT
                        !.submitWhilePending = hist.submitWhilePending,
                        !.swapCalls = 1,
                        !.startAllow = allowance[token_in]]
    /\ calls' = calls + 1
    /\ result' = NoValue
    /\ ret' = NoValue
    /\ ap' = IdleAp
    /\ ue' = IdleUe
    /\ txs' = InFlight
    /\ UNCHANGED <<allowance, balance, poolCreated>>
    /\ UNCHANGED exceptTrader

-----------------------------------------------------------------------------
(* swap_tokens_for_tokens *)

PoolResponses == IF poolCreated THEN {"pool", "error"} ELSE {"zero", "error"}

check_pool_exists ==
    /\ InSwap /\ sw.pc = "pool"
    /\ \E resp \in PoolResponses :
          /\ hist' = [hist EXCEPT !.poolResp = resp]
          /\ IF PoolExists(resp)
             THEN /\ sw' = [sw EXCEPT !.pc = SwapPcAfter("pool")]
                  /\ UNCHANGED <<ap, ue, ret, result>>
             ELSE Raise("NoLiquidityPool")
    /\ UNCHANGED <<txs, allowance, balance, poolCreated, calls>>
    /\ UNCHANGED exceptTrader

swap_tokens_for_tokens_allowance ==
    /\ InSwap /\ sw.pc = "allow"
    /\ LET allow == allowance[sw.token_in] IN
          /\ hist' = [hist EXCEPT !.lastAllow[sw.token_in] = allow,
                                  !.firstAllow = allow]
          /\ IF NeedsApproval(allow, sw.amount_in)
             THEN /\ sw' = [sw EXCEPT !.pc = "approved"]
                  /\ ap' = [IdleAp EXCEPT !.pc = "allow",
                                          !.token = sw.token_in,
                                          !.amount = Unlimited]
             ELSE /\ sw' = [sw EXCEPT !.pc = SwapPcAfter("allow")]
                  /\ UNCHANGED ap
    /\ UNCHANGED <<ue, ret, result, txs, allowance, balance, poolCreated,
                   calls>>
    /\ UNCHANGED exceptTrader

swap_tokens_for_tokens_approved ==
    /\ InSwap /\ sw.pc = "approved"
    /\ IF ApprovalWasSent(ret)
       THEN LET new_allowance == allowance[sw.token_in] IN
              /\ hist' = [hist EXCEPT !.lastAllow[sw.token_in] =
                                          new_allowance]
              /\ IF ApprovalStillShort(new_allowance, sw.amount_in)
                 THEN Raise("ApprovalFailed")
                 ELSE /\ sw' = [sw EXCEPT !.pc = SwapPcAfter("allow")]
                      /\ ret' = NoValue
                      /\ UNCHANGED <<ap, ue, result>>
       ELSE /\ sw' = [sw EXCEPT !.pc = SwapPcAfter("allow")]
            /\ ret' = NoValue
            /\ UNCHANGED <<ap, ue, result, hist>>
    /\ UNCHANGED <<txs, allowance, balance, poolCreated, calls>>
    /\ UNCHANGED exceptTrader

swap_tokens_for_tokens_send ==
    /\ InSwap /\ sw.pc = "send"
    /\ \/ /\ send_raw_transaction("swap", sw.token_in, sw.amount_in)
          /\ sw' = [sw EXCEPT !.pc = "wait", !.tx = Len(txs) + 1]
          /\ hist' = Submitted([hist EXCEPT !.swaps = @ + 1])
       \/ /\ \E e \in {"insufficient", "error"} :
                sw' = [sw EXCEPT !.pc = "failed", !.err = e]
          /\ UNCHANGED <<txs, hist>>
    /\ UNCHANGED <<ap, ue, ret, result, allowance, balance, poolCreated,
                   calls>>
    /\ UNCHANGED exceptTrader

GasError(err) ==
    IF err = "insufficient" THEN "InsufficientGasFunds" ELSE "SendFailed"

swap_tokens_for_tokens_except ==
    /\ InSwap /\ sw.pc = "failed"
    /\ IF SwapShouldRecover(sw.err, sw.retry_after_eth_swap) /\ balance[USDC] > 0
       THEN /\ sw' = [sw EXCEPT !.pc = "recovered"]
            /\ ue' = [IdleUe EXCEPT !.pc = "start", !.caller = "swap"]
            /\ hist' = [hist EXCEPT !.recoveries = @ + 1]
            /\ UNCHANGED <<ap, ret, result>>
       ELSE /\ Raise(GasError(sw.err))
            /\ UNCHANGED hist
    /\ UNCHANGED <<txs, allowance, balance, poolCreated, calls>>
    /\ UNCHANGED exceptTrader

swap_tokens_for_tokens_retry ==
    /\ InSwap /\ sw.pc = "recovered"
    /\ IF Truthy(ret)
       THEN /\ sw' = EnterSwap(sw.token_in, sw.amount_in, TRUE)
            /\ ret' = NoValue
            /\ hist' = [hist EXCEPT !.approvals = 0, !.swaps = 0,
                                    !.firstAllow = -1,
                                    !.poolResp = "none",
                                    !.swapCalls = @ + 1]
            /\ UNCHANGED <<ap, ue, result>>
       ELSE /\ Raise(GasError(sw.err))
            /\ UNCHANGED hist
    /\ UNCHANGED <<txs, allowance, balance, poolCreated, calls>>
    /\ UNCHANGED exceptTrader

\* a plausible slip: the status-0 branch ends without a return statement
SwapReturnLost(tx_hash, status) ==
    IF status = "ok" THEN to_hex(tx_hash) ELSE PyNone

\* trader.py:814 and trader.py:833 return the same expression
SwapReturn(tx_hash, status) == to_hex(tx_hash)

swap_tokens_for_tokens_receipt ==
    /\ InSwap /\ sw.pc = "wait"
    /\ \E outcome \in {"ok", "reverted", "timeout"} :
          /\ wait_for_transaction_receipt(sw.tx, outcome)
          /\ hist' = [hist EXCEPT !.swap_status = outcome]
          /\ IF outcome = "timeout"
             THEN Raise("TimeExhausted")
             ELSE /\ sw' = [sw EXCEPT !.pc = "idle"]
                  /\ result' = SwapReturn(sw.tx, outcome)
                  /\ UNCHANGED <<ap, ue, ret>>
    /\ UNCHANGED <<poolCreated, calls>>
    /\ UNCHANGED exceptTrader

-----------------------------------------------------------------------------
(* approve_token *)

ApproveReturn(v) ==
    /\ ap' = [ap EXCEPT !.pc = "idle"]
    /\ ret' = v

approve_token_allowance ==
    /\ InApprove /\ ap.pc = "allow"
    /\ LET allow == allowance[ap.token] IN
          /\ hist' = [hist EXCEPT !.lastAllow[ap.token] = allow]
          /\ IF AlreadyApproved(allow, ap.amount)
             THEN ApproveReturn(Sentinel)
             ELSE /\ ap' = [ap EXCEPT !.pc = "send"]
                  /\ UNCHANGED ret
    /\ UNCHANGED <<sw, ue, result, txs, allowance, balance, poolCreated,
                   calls>>
    /\ UNCHANGED exceptTrader

approve_token_send ==
    /\ InApprove /\ ap.pc = "send"
    /\ \/ /\ send_raw_transaction("approve", ap.token, ap.amount)
          /\ ap' = [ap EXCEPT !.pc = "wait", !.tx = Len(txs) + 1]
          /\ hist' = Submitted([hist EXCEPT !.approvals = @ + 1])
       \/ /\ \E e \in {"insufficient", "error"} :
                ap' = [ap EXCEPT !.pc = "failed", !.err = e]
          /\ UNCHANGED <<txs, hist>>
    /\ UNCHANGED <<sw, ue, ret, result, allowance, balance, poolCreated,
                   calls>>
    /\ UNCHANGED exceptTrader

\* the receipt status is logged only; an exception of the wait is swallowed
approve_token_receipt ==
    /\ InApprove /\ ap.pc = "wait"
    /\ \E outcome \in {"ok", "reverted", "timeout"} :
          wait_for_transaction_receipt(ap.tx, outcome)
    /\ ApproveReturn(to_hex(ap.tx))
    /\ UNCHANGED <<sw, ue, result, poolCreated, calls, hist>>
    /\ UNCHANGED exceptTrader

approve_token_except ==
    /\ InApprove /\ ap.pc = "failed"
    /\ IF ApproveShouldRecover(ap.err, ap.retry_after_eth_swap)
       THEN IF IsCircular(ap.token)
            THEN /\ Raise("NeedEth")
                 /\ UNCHANGED hist
            ELSE IF balance[USDC] > 0
            THEN /\ ap' = [ap EXCEPT !.pc = "recovered"]
                 /\ ue' = [IdleUe EXCEPT !.pc = "start",
                                         !.caller = "approve"]
                 /\ hist' = [hist EXCEPT !.recoveries = @ + 1]
                 /\ UNCHANGED <<sw, ret, result>>
            ELSE /\ Raise(GasError(ap.err))
                 /\ UNCHANGED hist
       ELSE /\ Raise(GasError(ap.err))
            /\ UNCHANGED hist
    /\ UNCHANGED <<txs, allowance, balance, poolCreated, calls>>
    /\ UNCHANGED exceptTrader

approve_token_retry ==
    /\ InApprove /\ ap.pc = "recovered"
    /\ IF Truthy(ret)
       THEN /\ ap' = [IdleAp EXCEPT !.pc = "allow", !.token = ap.token,
                                    !.amount = ap.amount, !.retry_after_eth_swap = TRUE]
            /\ ret' = NoValue
            /\ UNCHANGED <<sw, ue, result>>
       ELSE Raise(GasError(ap.err))
    /\ UNCHANGED <<txs, allowance, balance, poolCreated, calls, hist>>
    /\ UNCHANGED exceptTrader

-----------------------------------------------------------------------------
(* swap_usdc_for_eth *)

RecoveryReturn(v) ==
    /\ ue' = [ue EXCEPT !.pc = "idle"]
    /\ ret' = v

\* a plausible slip: the attempt is repeated with the same retry_count
swap_usdc_for_eth_again_uncounted ==
    /\ ue' = [IdleUe EXCEPT !.pc = "start", !.caller = ue.caller,
                            !.retry_count = ue.retry_count]
    /\ UNCHANGED ret

\* `except Exception: return self.swap_usdc_for_eth(retry_count + 1)`
swap_usdc_for_eth_again ==
    /\ ue' = [IdleUe EXCEPT !.pc = "start", !.caller = ue.caller,
                            !.retry_count = ue.retry_count + 1]
    /\ UNCHANGED ret

swap_usdc_for_eth_start ==
    /\ InRecovery /\ ue.pc = "start"
    /\ LET usdc_balance == balance[USDC]
           swap_amount == RecoverySwapAmount(usdc_balance, UsdcDecimals)
           allow == allowance[USDC]
       IN IF \/ RetriesExhausted(ue.retry_count)
             \/ usdc_balance <= 0
             \/ swap_amount <= 0
          THEN /\ RecoveryReturn(PyNone)
               /\ UNCHANGED hist
          ELSE /\ hist' = [hist EXCEPT !.lastAllow[USDC] = allow]
               /\ ue' = [ue EXCEPT !.swap_amount = swap_amount,
                                   !.pc = IF allow < swap_amount
                                          THEN "approve_send"
                                          ELSE "swap_send"]
               /\ UNCHANGED ret
    /\ UNCHANGED <<sw, ap, result, txs, allowance, balance, poolCreated,
                   calls>>
    /\ UNCHANGED exceptTrader

swap_usdc_for_eth_approve ==
    /\ InRecovery /\ ue.pc = "approve_send"
    /\ \/ /\ send_raw_transaction("recovery_approve", USDC, ue.swap_amount * 2)
          /\ ue' = [ue EXCEPT !.pc = "approve_wait", !.tx = Len(txs) + 1]
          /\ hist' = Submitted(hist)
          /\ UNCHANGED ret
       \/ /\ swap_usdc_for_eth_again
          /\ UNCHANGED <<txs, hist>>
    /\ UNCHANGED <<sw, ap, result, allowance, balance, poolCreated, calls>>
    /\ UNCHANGED exceptTrader

\* the receipt is not inspected; an exception of the wait is swallowed
swap_usdc_for_eth_approve_receipt ==
    /\ InRecovery /\ ue.pc = "approve_wait"
    /\ \E outcome \in {"ok", "reverted", "timeout"} :
          wait_for_transaction_receipt(ue.tx, outcome)
    /\ ue' = [ue EXCEPT !.pc = "swap_send"]
    /\ UNCHANGED <<sw, ap, ret, result, poolCreated, calls, hist>>
    /\ UNCHANGED exceptTrader

swap_usdc_for_eth_swap ==
    /\ InRecovery /\ ue.pc = "swap_send"
    /\ \/ /\ send_raw_transaction("recovery_swap", USDC, ue.swap_amount)
          /\ ue' = [ue EXCEPT !.pc = "swap_wait", !.tx = Len(txs) + 1,
                              !.swap_tx = Len(txs) + 1]
          /\ hist' = Submitted(hist)
          /\ UNCHANGED ret
       \/ /\ swap_usdc_for_eth_again
          /\ UNCHANGED <<txs, hist>>
    /\ UNCHANGED <<sw, ap, result, allowance, balance, poolCreated, calls>>
    /\ UNCHANGED exceptTrader

\* weth_balance is read after the swap receipt; the read is answered by
\* whichever RPC endpoint is current
swap_usdc_for_eth_swap_receipt ==
    /\ InRecovery /\ ue.pc = "swap_wait"
    /\ \E outcome \in {"ok", "reverted", "timeout"} :
          /\ wait_for_transaction_receipt(ue.tx, outcome)
          /\ IF outcome = "ok"
             THEN \E weth_balance \in {0, 1} :
                    IF weth_balance > 0
                    THEN /\ ue' = [ue EXCEPT !.pc = "unwrap_send",
                                             !.swap_status = outcome]
                         /\ UNCHANGED ret
                    ELSE /\ ue' = [ue EXCEPT !.pc = "idle",
                                             !.swap_status = outcome]
                         /\ ret' = to_hex(ue.swap_tx)
             ELSE /\ ue' = [ue EXCEPT !.pc = "idle",
                                      !.swap_status = outcome]
                  /\ ret' = PyNone
    /\ UNCHANGED <<sw, ap, result, poolCreated, calls, hist>>
    /\ UNCHANGED exceptTrader

swap_usdc_for_eth_unwrap ==
    /\ InRecovery /\ ue.pc = "unwrap_send"
    /\ \/ /\ send_raw_transaction("unwrap", "WETH", 1)
          /\ ue' = [ue EXCEPT !.pc = "unwrap_wait", !.tx = Len(txs) + 1]
          /\ hist' = Submitted(hist)
          /\ UNCHANGED ret
       \/ /\ RecoveryReturn(PyNone)
          /\ UNCHANGED <<txs, hist>>
    /\ UNCHANGED <<sw, ap, result, allowance, balance, poolCreated, calls>>
    /\ UNCHANGED exceptTrader

\* trader.py:670-685
UnwrapResult(outcome, swap_tx, unwrap_tx) ==
    CASE outcome = "ok" -> to_hex(unwrap_tx)
      [] outcome = "reverted" -> PyNone
      [] outcome = "timeout" -> to_hex(swap_tx)

swap_usdc_for_eth_unwrap_receipt ==
    /\ InRecovery /\ ue.pc = "unwrap_wait"
    /\ \E outcome \in {"ok", "reverted", "timeout"} :
          /\ wait_for_transaction_receipt(ue.tx, outcome)
          /\ ue' = [ue EXCEPT !.pc = "idle", !.unwrap_status = outcome]
          /\ ret' = UnwrapResult(outcome, ue.swap_tx, ue.tx)
    /\ UNCHANGED <<sw, ap, result, poolCreated, calls, hist>>
    /\ UNCHANGED exceptTrader

-----------------------------------------------------------------------------
(* The chain mines a transaction whose receipt nobody is waiting for *)

Awaited(i) ==
    \/ InSwap /\ sw.pc = "wait" /\ sw.tx = i
    \/ InApprove /\ ap.pc = "wait" /\ ap.tx = i
    \/ InRecovery /\ ue.tx = i
                  /\ ue.pc \in {"approve_wait", "swap_wait", "unwrap_wait"}

Mine ==
    /\ \E i \in PendingTxs, status \in {"ok", "reverted"} :
          /\ ~Awaited(i)
          /\ MineNow(i, status)
    /\ UNCHANGED <<sw, ap, ue, ret, result, poolCreated, calls, hist>>
    /\ UNCHANGED exceptTrader

-----------------------------------------------------------------------------

Next ==
    \/ CallSwap
    \/ check_pool_exists
    \/ swap_tokens_for_tokens_allowance
    \/ swap_tokens_for_tokens_approved
    \/ swap_tokens_for_tokens_send
    \/ swap_tokens_for_tokens_except
    \/ swap_tokens_for_tokens_retry
    \/ swap_tokens_for_tokens_receipt
    \/ approve_token_allowance
    \/ approve_token_send
    \/ approve_token_receipt
    \/ approve_token_except
    \/ approve_token_retry
    \/ swap_usdc_for_eth_start
    \/ swap_usdc_for_eth_approve
    \/ swap_usdc_for_eth_approve_receipt
    \/ swap_usdc_for_eth_swap
    \/ swap_usdc_for_eth_swap_receipt
    \/ swap_usdc_for_eth_unwrap
    \/ swap_usdc_for_eth_unwrap_receipt
    \/ Mine

Spec == Init /\ [][Next]_vars

\* the steps of the call itself: the interpreter keeps running, and every
\* chain call it makes returns or times out (receipt waits have timeout=180,
\* trader.py:808, 313, 488, 634, 662)
TraderStep ==
    \/ check_pool_exists
    \/ swap_tokens_for_tokens_allowance
    \/ swap_tokens_for_tokens_approved
    \/ swap_tokens_for_tokens_send
    \/ swap_tokens_for_tokens_except
    \/ swap_tokens_for_tokens_retry
    \/ swap_tokens_for_tokens_receipt
    \/ approve_token_allowance
    \/ approve_token_send
    \/ approve_token_receipt
    \/ approve_token_except
    \/ approve_token_retry
    \/ swap_usdc_for_eth_start
    \/ swap_usdc_for_eth_approve
    \/ swap_usdc_for_eth_approve_receipt
    \/ swap_usdc_for_eth_swap
    \/ swap_usdc_for_eth_swap_receipt
    \/ swap_usdc_for_eth_unwrap
    \/ swap_usdc_for_eth_unwrap_receipt

\* one top-level call, made on a wallet in any initial condition
CallSwapOnce == calls = 0 /\ CallSwap

NextLive ==
    \/ CallSwapOnce
    \/ TraderStep
    \/ Mine

SpecLive == Init /\ [][NextLive]_vars /\ WF_vars(TraderStep)

-----------------------------------------------------------------------------
(* Properties *)

\* C1: one top-level call swap_tokens_for_tokens(..., False) invokes
\* swap_usdc_for_eth at most once in total, counting the invocations made by
\* the nested approve_token and by the retried swap.
C1_RecoveryAtMostOnce == hist.recoveries <= 1

SwapSubmitStep == hist'.swaps = hist.swaps + 1

\* C2: whenever swap_tokens_for_tokens submits exactInputSingle, amount_in is
\* at most the wallet's balance of token_in at that moment.
C2_AmountWithinBalance ==
    [][SwapSubmitStep => sw.amount_in <= balance[sw.token_in]]_vars

\* C3: no transaction is submitted for the wallet while an earlier one is
\* still pending, so at most one transaction is in flight.
C3_OneInFlight ==
    /\ ~hist.submitWhilePending
    /\ Cardinality(PendingTxs) <= 1

SwapShortfall ==
    InSwap /\ sw.pc = "failed" /\ sw.err = "insufficient" /\ sw' # sw

ApproveShortfall ==
    InApprove /\ ap.pc = "failed" /\ ap.err = "insufficient" /\ ap' # ap

\* C4: a gas shortfall of the swap submission in a call made with
\* retry_after_eth_swap=True is raised, without another swap_usdc_for_eth
\* and without another swap_tokens_for_tokens.
C4_SecondShortfallTerminal ==
    [][(SwapShortfall /\ sw.retry_after_eth_swap) =>
          /\ result' = Exc("InsufficientGasFunds")
          /\ Idle'
          /\ hist'.recoveries = hist.recoveries
          /\ hist'.swapCalls = hist.swapCalls]_vars

C4_Witness ==
    /\ Idle
    /\ sw.retry_after_eth_swap /\ sw.err = "insufficient"
    /\ result = Exc("InsufficientGasFunds")

\* C5: a gas shortfall while the input token is USDC starts no recovery swap
\* and fails the operation, in swap_tokens_for_tokens and in approve_token.
C5_NoCircularRecovery ==
    [][(\/ SwapShortfall /\ sw.token_in = USDC
        \/ ApproveShortfall /\ ap.token = USDC) =>
          /\ hist'.recoveries = hist.recoveries
          /\ result'.kind = "exc"]_vars

RecoveryConfirmed == ue.swap_status = "ok" /\ ue.unwrap_status = "ok"

\* C6: the swap is re-invoked with retry_after_eth_swap=True only when the
\* USDC->WETH swap and the WETH unwrap were both confirmed with status 1;
\* otherwise the insufficient-funds failure is raised and nothing is retried.
C6_RetryOnlyAfterConfirmedRecovery ==
    [][(InSwap /\ sw.pc = "recovered" /\ sw' # sw) =>
          IF RecoveryConfirmed
          THEN sw'.retry_after_eth_swap /\ sw'.pc # "idle"
          ELSE result' = Exc("InsufficientGasFunds") /\ Idle']_vars

ApproveReturned == sw.pc = "approved" /\ ap.pc = "idle" /\ ue.pc = "idle"

IsSubmitted(v, kind) ==
    /\ v.kind = "hash"
    /\ v.tx \in DOMAIN txs
    /\ txs[v.tx].kind = kind

SwapEnded == Idle /\ result.kind # "none"

\* C7 (as stated): swap_tokens_for_tokens and approve_token end by returning
\* the hash of a submitted transaction or by raising.
C7_HashOrRaise ==
    /\ SwapEnded => result.kind = "exc" \/ IsSubmitted(result, "swap")
    /\ ApproveReturned => IsSubmitted(ret, "approve")

\* C7 (amended): swap_tokens_for_tokens ends by returning the hash of a swap
\* it submitted or by raising; approve_token ends by returning the hash of an
\* approval it submitted, or the sentinel "0x0" when it submitted none, or
\* by raising; neither returns None.
C7_HashSentinelOrRaise ==
    /\ SwapEnded =>
          \/ result.kind = "exc"
          \/ /\ IsSubmitted(result, "swap")
             /\ txs[result.tx].token = sw.token_in
             /\ txs[result.tx].amount = sw.amount_in
    /\ ApproveReturned =>
          \/ ret = Sentinel /\ hist.approvals = 0
          \/ IsSubmitted(ret, "approve") /\ hist.approvals = 1

C7_Witness == ApproveReturned /\ ret = Sentinel

\* C8: after a receipt with status 0 swap_tokens_for_tokens returns an
\* outcome that keeps the hash and differs from the outcome of a confirmed
\* trade.
C8_RevertedOutcomeMarked ==
    (SwapEnded /\ hist.swap_status = "reverted") =>
        /\ result.kind = "hash" /\ result.tx = sw.tx
        /\ result # SwapReturn(sw.tx, "ok")

\* C9: once the factory has answered the zero address, the call has failed
\* with the no-liquidity-pool error and has submitted no transaction.
C9_NoPoolNoTransaction ==
    hist.poolResp = "zero" =>
        /\ result = Exc("NoLiquidityPool")
        /\ Idle
        /\ hist.txsThisCall = 0

C9_Witness == hist.poolResp = "zero" /\ result = Exc("NoLiquidityPool")

SwapReady == sw.pc \in {"send", "wait"}

ApprovalKinds == {"approve", "recovery_approve"}

\* the approvals among the transactions submitted since the call started
ApprovalsOfCall ==
    {i \in DOMAIN txs : /\ i > Len(txs) - hist.txsThisCall
                         /\ txs[i].kind \in ApprovalKinds}

\* C11 (as stated): a call of swap_tokens_for_tokens that starts with an
\* allowance of token_in of at least amount_in, left by the preceding call,
\* submits no approval transaction.
C11_NoApprovalWhenAllowed ==
    (calls > 0 /\ hist.startAllow >= sw.amount_in) => ApprovalsOfCall = {}

\* C11 (amended): when the allowance read of the call (trader.py:733) is at
\* least amount_in, the call does not invoke approve_token and submits no
\* approval transaction, unless the gas-shortfall recovery runs.
C11_NoApprovalUnlessRecovery ==
    (calls > 0 /\ hist.recoveries = 0 /\ hist.firstAllow >= sw.amount_in) =>
        /\ ApprovalsOfCall = {}
        /\ sw.pc # "approved"
        /\ ap.pc = "idle"

C11_Witness ==
    /\ sw.pc = "wait"
    /\ hist.startAllow >= sw.amount_in
    /\ hist.firstAllow >= sw.amount_in
    /\ hist.recoveries = 0
    /\ ApprovalsOfCall = {}

\* C12: approve_token returns the sentinel "0x0" exactly when it submitted
\* no approval, and then the allowance it read was at least the requested
\* amount; any other returned value is the hash of an approval of the
\* requested token and amount that it submitted.
C12_SentinelIffNothingSubmitted ==
    ApproveReturned =>
        /\ ret = Sentinel <=> hist.approvals = 0
        /\ ret = Sentinel => hist.lastAllow[ap.token] >= ap.amount
        /\ ret # Sentinel =>
              /\ IsSubmitted(ret, "approve")
              /\ ret.tx > Len(txs) - hist.txsThisCall
              /\ txs[ret.tx].token = ap.token
              /\ txs[ret.tx].amount = ap.amount

C12_Witness ==
    /\ ApproveReturned
    /\ ret = Sentinel
    /\ hist.approvals = 0
    /\ hist.lastAllow[ap.token] >= ap.amount


\* C30: one top-level call of swap_usdc_for_eth invokes itself at most twice
\* (retry_count never exceeds 2) and the invocation with retry_count = 2
\* returns None; while swap_usdc_for_eth runs, neither approve_token nor
\* swap_tokens_for_tokens is invoked and no further recovery is started.
C30_BoundedSelfRetry ==
    [][InRecovery =>
          /\ ue'.retry_count <= 2
          /\ (ue.pc = "start" /\ ue.retry_count = 2 /\ ue' # ue) =>
                (ret' = PyNone /\ ue'.pc = "idle")
          /\ sw' = sw /\ ap' = ap
          /\ hist'.recoveries = hist.recoveries
          /\ hist'.swapCalls = hist.swapCalls]_vars

C30_Witness == ue.pc = "idle" /\ ue.retry_count = 2 /\ ret = PyNone


RecoveryStarts ==
    InRecovery /\ ue.pc = "start" /\ ue.retry_count < 2 /\ ue' # ue

TxsPerAttempt == 3

\* a failed first attempt has submitted at most its approval, so a recovery
\* submits at most TxsPerAttempt + 1 transactions; a top-level call makes at
\* most three recoveries (one from each of its two invocations' approve_token
\* and one from its own submission), two approvals and one swap
MaxTxsPerCall == 3 * (TxsPerAttempt + 1) + 3

CallOver == Idle /\ result # NoValue

\* C33: every call of swap_tokens_for_tokens returns or raises; it invokes
\* itself at most once, swap_usdc_for_eth makes at most two further
\* attempts, and one top-level call submits at most MaxTxsPerCall
\* transactions.
C33_Terminates ==
    /\ [](/\ hist.swapCalls <= 2
          /\ ue.retry_count <= 2
          /\ hist.txsThisCall <= MaxTxsPerCall)
    /\ (~Idle ~> CallOver)

C33_Witness ==
    /\ CallOver /\ hist.swapCalls = 2 /\ result.kind = "hash"
    /\ hist.txsThisCall >= 5

-----------------------------------------------------------------------------
(***************************************************************************)
(* The wallet registry (scripts/volume_bot/multi_wallet_manager.py).       *)
(*                                                                         *)
(* One MultiWalletManager at a time works on the wallets file: the bot and *)
(* every CLI command construct their own manager, so a manager that goes   *)
(* away and a new one that loads the file are part of the behaviour.       *)
(* _save_wallets opens the file with mode 'w', which truncates it, and     *)
(* then dumps the list: the file is a state of its own between the two.    *)
(***************************************************************************)

os_path_exists == wallets_file.state # "absent"

\* json.load(f) gives the list; a truncated file raises JSONDecodeError
JsonLoads == wallets_file.state = "written"

\* a plausible slip: every record of the file is loaded
IsActiveAlways(wallet_data) == TRUE

\* multi_wallet_manager.py:42
IsActive(wallet_data) == wallet_data.active

\* multi_wallet_manager.py:40-43
LoadedWallets(wallets_data) ==
    LET active == SelectSeq(wallets_data, IsActive)
    IN [i \in 1..Len(active) |-> Wallet(active[i].private_key)]

\* a plausible slip: only the records of the wallets in memory are kept
get_wallet_data_current(memory) ==
    LET wallets_data == IF os_path_exists /\ JsonLoads
                        THEN wallets_file.data ELSE <<>>
        current_addresses == {get_address(w) : w \in Range(memory)}
    IN SelectSeq(wallets_data,
                 LAMBDA wallet_data : wallet_data.address \in current_addresses)

\* multi_wallet_manager.py:65-85, with self.wallets = memory
get_wallet_data(memory) ==
    LET wallets_data == IF os_path_exists /\ JsonLoads
                        THEN wallets_file.data ELSE <<>>
        current_addresses == {get_address(w) : w \in Range(memory)}
    IN [i \in 1..Len(wallets_data) |->
          [wallets_data[i] EXCEPT
              !.active = wallets_data[i].address \in current_addresses]]

KnownKeys ==
    {d.private_key : d \in Range(wallets_file.data)} \cup
    {w.private_key : w \in Range(wallets)}

\* Account.create(): a key that no wallet has
create_new_wallet ==
    LET private_key == 1 + Cardinality(KnownKeys)
    IN [private_key |-> private_key, address |-> AddressOf(private_key)]

\* the file is opened with mode 'w' (multi_wallet_manager.py:58)
open_w == wallets_file' = TruncatedFile

Called(name) ==
    [NoCall EXCEPT !.name = name, !.wallets = wallets,
                   !.data = wallets_file.data]

InitRegistry ==
    /\ sw = IdleSw
    /\ ap = IdleAp
    /\ ue = IdleUe
    /\ ret = NoValue
    /\ result = NoValue
    /\ txs = <<>>
    /\ allowance = [t \in Tokens |-> 0]
    /\ balance = [t \in Tokens |-> 0]
    /\ poolCreated = FALSE
    /\ calls = 0
    /\ hist = InitHist
    /\ peers = NoPeers
    /\ supply = IdleSupply
    /\ funding = IdleFunding
    /\ wallets = <<>>
    /\ wallets_file = AbsentFile
    /\ mgr = NoManager
    /\ last = NoCall
    /\ loop = IdleLoop
    /\ stdin = NoKey
    /\ wrapper = IdleWrapper
    /\ current_rpc_index = 0
    /\ calc = NoCalc

\* MultiWalletManager(wallets_file_path)
__init__ ==
    /\ mgr.pc = "down"
    /\ last' = [NoCall EXCEPT !.name = "__init__",
                              !.data = wallets_file.data]
    /\ IF ~os_path_exists
       THEN /\ wallets' = <<>>
            /\ open_w
            /\ mgr' = [IdleManager EXCEPT !.pc = "saving",
                                          !.method = "__init__"]
       ELSE /\ wallets' = IF JsonLoads
                          THEN LoadedWallets(wallets_file.data)
                          ELSE <<>>
            /\ mgr' = IdleManager
            /\ UNCHANGED wallets_file
    /\ UNCHANGED exceptRegistry

\* the command or the bot that owns the manager ends
Exit ==
    /\ mgr.pc = "idle"
    /\ mgr' = NoManager
    /\ wallets' = <<>>
    /\ last' = NoCall
    /\ UNCHANGED wallets_file
    /\ UNCHANGED exceptRegistry

\* create_wallet up to the open of the file in _save_wallets
create_wallet_open(method, count) ==
    LET wallet_info == create_new_wallet
        wallet == Wallet(wallet_info.private_key)
        memory == Append(wallets, wallet)
    IN /\ wallets' = memory
       /\ open_w
       /\ mgr' = [IdleManager EXCEPT
                    !.pc = "saving", !.method = method, !.count = count,
                    !.wallets_data = Append(get_wallet_data(memory),
                                            NewWalletData(wallet_info))]

create_wallet ==
    /\ mgr.pc = "idle"
    /\ Cardinality(KnownKeys) < MaxWallets
    /\ create_wallet_open("create_wallet", 0)
    /\ last' = Called("create_wallet")
    /\ UNCHANGED exceptRegistry

\* a plausible slip: the loop runs once more
EnsureMoreInclusive(len, count) == len <= count

\* multi_wallet_manager.py:125
EnsureMore(len, count) == len < count

ensure_wallets ==
    /\ mgr.pc = "idle"
    /\ \E count \in 0..MaxWallets :
          /\ Cardinality(KnownKeys) + count - Len(wallets) <= MaxWallets
          /\ mgr' = [IdleManager EXCEPT !.pc = "ensure",
                                        !.method = "ensure_wallets",
                                        !.count = count]
          /\ last' = [Called("ensure_wallets") EXCEPT !.count = count]
    /\ UNCHANGED <<wallets, wallets_file>>
    /\ UNCHANGED exceptRegistry

ensure_wallets_while ==
    /\ mgr.pc = "ensure"
    /\ IF EnsureMore(Len(wallets), mgr.count)
       THEN /\ Cardinality(KnownKeys) < MaxWallets
            /\ create_wallet_open("ensure_wallets", mgr.count)
            /\ UNCHANGED last
       ELSE /\ mgr' = IdleManager
            /\ last' = [last EXCEPT
                          !.ret = Returns("list",
                                          PySlice(wallets, 0, mgr.count))]
            /\ UNCHANGED <<wallets, wallets_file>>
    /\ UNCHANGED exceptRegistry

TotalTrades(wallets_data) ==
    LET sum[i \in 0..Len(wallets_data)] ==
            IF i = 0 THEN 0 ELSE sum[i - 1] + wallets_data[i].stats.trades
    IN sum[Len(wallets_data)]

\* the addresses a caller can pass: of a record, in either case, or of none
AddressInputs ==
    LET keys == 1..(Cardinality(KnownKeys) + 1)
    IN {AddressOf(k) : k \in keys} \cup {lower(AddressOf(k)) : k \in keys}

\* multi_wallet_manager.py:161-168: the first record of the address
UpdatedStats(wallets_data, address, trade_amount_usd) ==
    LET found == {i \in DOMAIN wallets_data :
                     SameAddress(wallets_data[i].address, address)}
    IN IF found = {} THEN wallets_data
       ELSE LET i == CHOOSE j \in found : \A k \in found : j <= k
            IN [wallets_data EXCEPT
                  ![i].stats.trades = @ + 1,
                  ![i].stats.volume = @ + trade_amount_usd]

\* is_buy is the direction of the trade at the call site
\* (volume_generator.py:526 after a sell, :576 after a buy or a sell); the
\* method has no parameter for it
update_wallet_stats ==
    /\ mgr.pc = "idle"
    /\ TotalTrades(wallets_file.data) < MaxTrades
    /\ \E address \in AddressInputs, trade_amount_usd \in TradeAmounts,
          is_buy \in BOOLEAN :
          /\ mgr' = [IdleManager EXCEPT
                       !.pc = "saving", !.method = "update_wallet_stats",
                       !.wallets_data =
                           UpdatedStats(get_wallet_data(wallets), address,
                                        trade_amount_usd)]
          /\ last' = [Called("update_wallet_stats") EXCEPT
                        !.address = address, !.amount = trade_amount_usd,
                        !.is_buy = is_buy]
    /\ open_w
    /\ UNCHANGED wallets
    /\ UNCHANGED exceptRegistry

\* multi_wallet_manager.py:182-187
Deactivated(memory, count) ==
    LET chosen == IF count >= Len(memory) THEN memory
                  ELSE PySlice(memory, -count, Len(memory))
    IN [i \in 1..Len(chosen) |-> get_address(chosen[i])]

\* a plausible slip: the wallets in memory are not trimmed
RemainingUntrimmed(memory, count) ==
    memory

\* multi_wallet_manager.py:184, 187
Remaining(memory, count) ==
    IF count >= Len(memory) THEN <<>> ELSE PySlice(memory, 0, -count)

deactivate_wallets ==
    /\ mgr.pc = "idle"
    /\ \E count \in 0..(MaxWallets + 1) :
          LET deactivated == Deactivated(wallets, count)
              memory == Remaining(wallets, count)
              wallets_data == get_wallet_data(memory)
          IN /\ wallets' = memory
             /\ mgr' = [IdleManager EXCEPT
                          !.pc = "saving", !.method = "deactivate_wallets",
                          !.count = count, !.deactivated = deactivated,
                          !.wallets_data =
                              [i \in 1..Len(wallets_data) |->
                                 IF wallets_data[i].address
                                        \in Range(deactivated)
                                 THEN [wallets_data[i] EXCEPT
                                         !.active = FALSE]
                                 ELSE wallets_data[i]]]
             /\ last' = [Called("deactivate_wallets") EXCEPT
                           !.count = count]
    /\ open_w
    /\ UNCHANGED exceptRegistry

get_all_wallets ==
    /\ mgr.pc = "idle"
    /\ last' = [Called("get_all_wallets") EXCEPT
                  !.ret = Returns("list", wallets)]
    /\ UNCHANGED <<wallets, wallets_file, mgr>>
    /\ UNCHANGED exceptRegistry

\* what the method that saved returns to its caller
ReturnOf(frame) ==
    CASE frame.method = "create_wallet" ->
            Returns("Wallet", <<wallets[Len(wallets)]>>)
      [] frame.method = "deactivate_wallets" ->
            Returns("list", frame.deactivated)
      [] frame.method = "update_wallet_stats" -> Returns("None", <<>>)
      [] OTHER -> Returns("none", <<>>)

\* json.dump(wallets_data, f) and the close of the file, then the return of
\* the method that called _save_wallets
_save_wallets ==
    /\ mgr.pc = "saving"
    /\ wallets_file' = WrittenFile(mgr.wallets_data)
    /\ IF mgr.method = "ensure_wallets"
       THEN /\ mgr' = [mgr EXCEPT !.pc = "ensure", !.wallets_data = <<>>]
            /\ UNCHANGED last
       ELSE /\ mgr' = IdleManager
            /\ last' = [last EXCEPT !.ret = ReturnOf(mgr)]
    /\ UNCHANGED wallets
    /\ UNCHANGED exceptRegistry

NextRegistry ==
    \/ __init__
    \/ Exit
    \/ create_wallet
    \/ ensure_wallets
    \/ ensure_wallets_while
    \/ update_wallet_stats
    \/ deactivate_wallets
    \/ get_all_wallets
    \/ _save_wallets

SpecRegistry == InitRegistry /\ [][NextRegistry]_vars

-----------------------------------------------------------------------------
(* Properties of the wallet registry *)

Max(a, b) == IF a > b THEN a ELSE b

\* the call `name` has returned to its caller
Returned(name) ==
    mgr.pc = "idle" /\ last.name = name /\ last.ret.kind # "none"

AddressesOf(memory) == [i \in 1..Len(memory) |-> get_address(memory[i])]

\* the wallets of the records with active = true, in the order of the file
ActiveWalletsOf(wallets_data) ==
    LET active == SelectSeq(wallets_data, LAMBDA d : d.active)
    IN [i \in 1..Len(active) |-> Wallet(active[i].private_key)]

\* C13: deactivate_wallets(k) on m active wallets deactivates the min(k, m)
\* most recently added ones, returns their addresses and leaves the others
\* active, for every k >= 0.
C13_DeactivatesLastK ==
    Returned("deactivate_wallets") =>
        LET m == Len(last.wallets)
            k == Min(last.count, m)
        IN /\ last.ret.items = AddressesOf(SubSeq(last.wallets, m - k + 1, m))
           /\ wallets = SubSeq(last.wallets, 1, m - k)
           /\ ActiveWalletsOf(wallets_file.data) =
                 SubSeq(last.wallets, 1, m - k)

\* C14: ensure_wallets(n) on a active wallets never lowers the number of
\* active wallets, keeps every wallet and every record, and returns with
\* max(a, n) active wallets.
C14_EnsureNeverReduces ==
    last.name = "ensure_wallets" =>
        LET a == Len(last.wallets)
        IN /\ Len(wallets) >= a
           /\ SubSeq(wallets, 1, a) = last.wallets
           /\ Returned("ensure_wallets") =>
                 /\ Len(wallets) = Max(a, last.count)
                 /\ Len(ActiveWalletsOf(wallets_file.data)) =
                       Max(a, last.count)
                 /\ Len(wallets_file.data) >= Len(last.data)
                 /\ SubSeq(wallets_file.data, 1, Len(last.data)) = last.data

C14_Witness ==
    /\ Returned("ensure_wallets")
    /\ last.count = 2
    /\ Len(last.wallets) = 5
    /\ Len(wallets) = 5

\* C15: ensure_wallets(n) returns with at least n records in the file, having
\* created exactly the records that were missing for that, and returns n
\* wallets, the first n active ones in insertion order, also after a
\* deactivation.
C15_CreatesMissingRecords ==
    Returned("ensure_wallets") =>
        LET n == last.count
            before == Len(last.data)
            after == Len(wallets_file.data)
        IN /\ after >= n
           /\ after - before = Max(0, n - before)
           /\ Len(last.ret.items) = n
           /\ last.ret.items =
                 SubSeq(ActiveWalletsOf(wallets_file.data), 1, n)

\* C16: whenever the manager is idle, and in what get_all_wallets returns,
\* the wallets are those of the records with active = true, in insertion
\* order.
C16_ActiveInOrder ==
    /\ mgr.pc = "idle" => wallets = ActiveWalletsOf(wallets_file.data)
    /\ Returned("get_all_wallets") =>
          last.ret.items = ActiveWalletsOf(wallets_file.data)

C16_Witness ==
    /\ Returned("get_all_wallets")
    /\ last.ret.items # <<>>
    /\ \E i \in DOMAIN wallets_file.data : ~wallets_file.data[i].active

\* every record of `old` is in `new` at its place, with its address and key
Kept(old, new) ==
    /\ Len(old) <= Len(new)
    /\ \A i \in DOMAIN old :
          /\ new[i].address = old[i].address
          /\ new[i].private_key = old[i].private_key

\* C17: a call of the manager, and a load by a new manager, leaves every
\* record that was in the file in the file, with its address and private key;
\* deactivate_wallets changes nothing but the active flag of the records it
\* returns.
C17_RecordsOnlyGrow ==
    /\ mgr.pc = "idle" => Kept(last.data, wallets_file.data)
    /\ Returned("deactivate_wallets") =>
          /\ Len(wallets_file.data) = Len(last.data)
          /\ \A i \in DOMAIN last.data :
                wallets_file.data[i] =
                    [last.data[i] EXCEPT
                       !.active = @ /\ last.data[i].address
                                          \notin Range(last.ret.items)]

C17_Witness ==
    /\ Returned("create_wallet")
    /\ \E i \in DOMAIN last.data : ~last.data[i].active
    /\ Len(wallets_file.data) = Len(last.data) + 1

MutatingCalls ==
    {"create_wallet", "ensure_wallets", "update_wallet_stats",
     "deactivate_wallets"}

\* C18: from the start of a mutating call on, the file holds a complete
\* snapshot at every step, the one before the call or the one the call
\* writes, and the call returns with its snapshot written.
C18_AtomicReplace ==
    (last.name \in MutatingCalls /\ last.data # <<>>) =>
        /\ wallets_file.state = "written"
        /\ mgr.pc = "saving" =>
              wallets_file.data \in {last.data, mgr.wallets_data}

Counter(stats, name) == IF name \in DOMAIN stats THEN stats[name] ELSE 0

RecordsOf(address, wallets_data) ==
    {i \in DOMAIN wallets_data : wallets_data[i].address.id = address.id}

\* C19: update_wallet_stats for a trade of a wallet in the file adds the
\* notional to the volume and one to buys after a buy, one to sells after a
\* sell, and leaves the counter of the other direction.
C19_DirectionCounted ==
    Returned("update_wallet_stats") =>
        \A i \in RecordsOf(last.address, last.data) :
            LET old == last.data[i].stats
                new == wallets_file.data[i].stats
            IN /\ new.volume = old.volume + last.amount
               /\ Counter(new, "buys") =
                     Counter(old, "buys") + (IF last.is_buy THEN 1 ELSE 0)
               /\ Counter(new, "sells") =
                     Counter(old, "sells") + (IF last.is_buy THEN 0 ELSE 1)

\* C20: update_wallet_stats with an address of no record returns None and
\* writes the records back as they were; the wallets in memory stay.
C20_UnknownAddressNoOp ==
    (last.name = "update_wallet_stats"
        /\ RecordsOf(last.address, last.data) = {}) =>
        /\ wallets = last.wallets
        /\ mgr.pc = "saving" => mgr.wallets_data = last.data
        /\ mgr.pc = "idle" =>
              /\ wallets_file = WrittenFile(last.data)
              /\ last.ret = Returns("None", <<>>)

C20_Witness ==
    /\ Returned("update_wallet_stats")
    /\ RecordsOf(last.address, last.data) = {}
    /\ last.data # <<>>
    /\ wallets_file = WrittenFile(last.data)


AfterMutatingCall == mgr.pc = "idle" /\ last.name \in MutatingCalls

FreshManager == mgr.pc = "idle" /\ last.name = "__init__"

-----------------------------------------------------------------------------
(***************************************************************************)
(* The continuous-trading loop (volume_generator.py:400-587).              *)
(*                                                                         *)
(* start_continuous_trading is one sequential program; loop.pc is its      *)
(* position. The terminal is the environment: a keypress can arrive at     *)
(* any moment of the run (KeyPress) and stays in sys.stdin until the loop  *)
(* reads it. The Trader is seen from outside: swap_tokens_for_tokens       *)
(* raises before it has submitted, or submits and then returns the hash    *)
(* of a confirmed or of a reverted swap, or raises TimeExhausted. Balances *)
(* are what the chain answers at the moment of the read.                   *)
(***************************************************************************)

TradeSizes == 1..MaxTradeAmount
WalletBalances == 0..MaxTradeAmount
\* wait_seconds in units of wait_interval
WaitPolls == 1..MaxWaitPolls

Running == loop.pc \notin {"idle", "returned"}

\* volume_generator.py:495
UsdcShort(usdc_balance, trade_amount) == usdc_balance < trade_amount

\* volume_generator.py:510 and 554
TokenShort(token_balance, token_amount) == token_balance < token_amount

\* a plausible slip: the sell branch skips the wallet like the other branch
AfterTokenShortSkip(operation) == "skip"

\* volume_generator.py:510-513 (the USDC balance was short, no operation was
\* drawn) and 554-563 (the operation drawn was "sell")
AfterTokenShort(operation) == IF operation = "sell" THEN "buy" ELSE "skip"

\* a plausible slip: the delay sleeps without looking at sys.stdin
DelayStopsNever(key_pending) == FALSE

\* volume_generator.py:465  select.select([sys.stdin], [], [], 0)[0]
DelayStops(key_pending) == key_pending

\* a plausible slip: the handler leaves the loop instead of sleeping
AfterExceptLeave(pc) ==
    CASE pc = "except" -> "returned"
      [] pc = "cooldown" -> "top"

\* volume_generator.py:578-580, then the next round of `while True`
AfterExcept(pc) ==
    CASE pc = "except" -> "cooldown"
      [] pc = "cooldown" -> "top"

\* the fields of the iteration are those of IdleLoop again
NewIteration(l) ==
    [IdleLoop EXCEPT !.entered = l.entered, !.stop_read = l.stop_read,
                     !.stop_at = l.stop_at,
                     !.trades_after_stop = l.trades_after_stop]

\* `break` at line 450 or `return` at line 468, then the finally clause
Stopped(l) == [l EXCEPT !.pc = "returned", !.stop_read = TRUE]

\* an exception inside the try of the iteration: control is at line 578
Raised(l) == [l EXCEPT !.pc = "except", !.ended = "raised"]

\* where the loop is when a keypress arrives
StopPhase(l) ==
    CASE l.pc = "top" -> "top"
      [] l.pc = "delay" /\ l.waited < l.wait_seconds -> "delay"
      [] l.pc = "delay" /\ l.waited >= l.wait_seconds -> "delay_end"
      [] l.pc = "sleep" /\ l.waited + 1 < l.wait_seconds -> "delay"
      [] l.pc = "sleep" /\ l.waited + 1 >= l.wait_seconds -> "delay_end"
      [] l.pc \in {"select", "usdc", "token", "swap"} -> "before_trade"
      [] l.pc \in {"receipt", "stats"} -> "trade"
      [] l.pc \in {"except", "cooldown"} -> "cooldown"

InitScheduler ==
    /\ sw = IdleSw
    /\ ap = IdleAp
    /\ ue = IdleUe
    /\ ret = NoValue
    /\ result = NoValue
    /\ txs = <<>>
    /\ allowance = [t \in Tokens |-> 0]
    /\ balance = [t \in Tokens |-> 0]
    /\ poolCreated = FALSE
    /\ calls = 0
    /\ hist = InitHist
    /\ peers = NoPeers
    /\ supply = IdleSupply
    /\ funding = IdleFunding
    /\ wallets = <<>>
    /\ wallets_file = AbsentFile
    /\ mgr = NoManager
    /\ last = NoCall
    /\ loop = IdleLoop
    /\ stdin = NoKey
    /\ wrapper = IdleWrapper
    /\ current_rpc_index = 0
    /\ calc = NoCalc

\* lines 409-442: without an active wallet the function returns at once
start_continuous_trading ==
    /\ loop.pc = "idle"
    /\ \E have_wallets \in BOOLEAN :
          loop' = IF have_wallets
                  THEN [IdleLoop EXCEPT !.pc = "top", !.entered = TRUE]
                  ELSE [IdleLoop EXCEPT !.pc = "returned"]
    /\ UNCHANGED stdin
    /\ UNCHANGED exceptScheduler

\* lines 447-462
loop_top ==
    /\ loop.pc = "top"
    /\ IF stdin
       THEN /\ loop' = Stopped(loop)
            /\ stdin' = NoKey
       ELSE /\ \E wait_seconds \in WaitPolls :
                  loop' = [NewIteration(loop) EXCEPT
                              !.pc = "delay", !.wait_seconds = wait_seconds]
            /\ UNCHANGED stdin
    /\ UNCHANGED exceptScheduler

\* lines 464-468: the condition of the inner while and the poll of sys.stdin
delay_poll ==
    /\ loop.pc = "delay"
    /\ IF loop.waited < loop.wait_seconds
       THEN IF DelayStops(stdin)
            THEN /\ loop' = Stopped(loop)
                 /\ stdin' = NoKey
            ELSE /\ loop' = [loop EXCEPT !.pc = "sleep"]
                 /\ UNCHANGED stdin
       ELSE /\ loop' = [loop EXCEPT !.pc = "select"]
            /\ UNCHANGED stdin
    /\ UNCHANGED exceptScheduler

\* lines 469-470
delay_sleep ==
    /\ loop.pc = "sleep"
    /\ loop' = [loop EXCEPT !.pc = "delay", !.waited = @ + 1]
    /\ UNCHANGED stdin
    /\ UNCHANGED exceptScheduler

\* lines 473-491: the wallet, its Trader (whose constructor reads the chain)
\* and the trade size
select_wallet ==
    /\ loop.pc = "select"
    /\ \/ \E trade_amount \in TradeSizes :
             loop' = [loop EXCEPT !.pc = "usdc", !.trade_amount = trade_amount]
       \/ loop' = Raised(loop)
    /\ UNCHANGED stdin
    /\ UNCHANGED exceptScheduler

\* lines 494-495 and 532-534
read_usdc_balance ==
    /\ loop.pc = "usdc"
    /\ \/ \E usdc_balance \in WalletBalances :
             IF UsdcShort(usdc_balance, loop.trade_amount)
             THEN loop' = [loop EXCEPT !.pc = "token",
                                       !.usdc_balance = usdc_balance]
             ELSE \E operation \in {"buy", "sell"} :
                     loop' = [loop EXCEPT
                                !.usdc_balance = usdc_balance,
                                !.operation = operation,
                                !.pc = IF operation = "buy" THEN "swap"
                                       ELSE "token",
                                !.swap = IF operation = "buy" THEN "buy"
                                         ELSE "none"]
       \/ loop' = Raised(loop)
    /\ UNCHANGED stdin
    /\ UNCHANGED exceptScheduler

\* lines 501-513 and 545-563
read_token_balance ==
    /\ loop.pc = "token"
    /\ \/ \E token_balance \in WalletBalances, token_amount \in TradeSizes :
             LET l == [loop EXCEPT !.token_balance = token_balance,
                                   !.token_amount = token_amount]
             IN IF TokenShort(token_balance, token_amount)
                THEN IF AfterTokenShort(loop.operation) = "skip"
                     THEN loop' = [l EXCEPT !.pc = "top", !.ended = "skipped"]
                     ELSE loop' = [l EXCEPT !.pc = "swap", !.swap = "buy"]
                ELSE loop' = [l EXCEPT !.pc = "swap", !.swap = "sell"]
       \/ loop' = Raised(loop)
    /\ UNCHANGED stdin
    /\ UNCHANGED exceptScheduler

\* lines 516, 537, 558, 566: swap_tokens_for_tokens up to its submission
swap_call ==
    /\ loop.pc = "swap"
    /\ \/ loop' = [loop EXCEPT
                     !.pc = "receipt", !.submitted = @ + 1,
                     !.trades_after_stop = IF stdin THEN @ + 1 ELSE @]
       \/ loop' = Raised(loop)
    /\ UNCHANGED stdin
    /\ UNCHANGED exceptScheduler

\* trader.py:808-833: both receipt statuses return the hash
swap_receipt ==
    /\ loop.pc = "receipt"
    /\ \E outcome \in {"confirmed", "reverted", "timeout"} :
          loop' = IF outcome = "timeout"
                  THEN [Raised(loop) EXCEPT !.receipt = outcome]
                  ELSE [loop EXCEPT !.pc = "stats", !.receipt = outcome]
    /\ UNCHANGED stdin
    /\ UNCHANGED exceptScheduler

\* lines 526-529 and 576
update_stats ==
    /\ loop.pc = "stats"
    /\ \/ loop' = [loop EXCEPT !.pc = "top", !.updates = @ + 1,
                               !.ended = "done"]
       \/ loop' = [Raised(loop) EXCEPT !.updates = @ + 1]
    /\ UNCHANGED stdin
    /\ UNCHANGED exceptScheduler

\* lines 578-579
loop_except ==
    /\ loop.pc = "except"
    /\ loop' = [loop EXCEPT !.pc = AfterExcept("except")]
    /\ UNCHANGED stdin
    /\ UNCHANGED exceptScheduler

\* line 580: time.sleep(60), which does not look at sys.stdin
loop_cooldown ==
    /\ loop.pc = "cooldown"
    /\ loop' = [loop EXCEPT !.pc = AfterExcept("cooldown")]
    /\ UNCHANGED stdin
    /\ UNCHANGED exceptScheduler

\* the operator presses a key
KeyPress ==
    /\ Running
    /\ ~stdin
    /\ stdin' = TRUE
    /\ loop' = [loop EXCEPT !.stop_at = StopPhase(loop)]
    /\ UNCHANGED exceptScheduler

LoopStep ==
    \/ start_continuous_trading
    \/ loop_top
    \/ delay_poll
    \/ delay_sleep
    \/ select_wallet
    \/ read_usdc_balance
    \/ read_token_balance
    \/ swap_call
    \/ swap_receipt
    \/ update_stats
    \/ loop_except
    \/ loop_cooldown

NextScheduler ==
    \/ start_continuous_trading
    \/ loop_top
    \/ delay_poll
    \/ delay_sleep
    \/ select_wallet
    \/ read_usdc_balance
    \/ read_token_balance
    \/ swap_call
    \/ swap_receipt
    \/ update_stats
    \/ loop_except
    \/ loop_cooldown
    \/ KeyPress

SpecScheduler == InitScheduler /\ [][NextScheduler]_vars

\* every call the loop makes returns or times out, so the program keeps
\* taking steps; nothing is assumed about the keypress
SpecSchedulerLive == SpecScheduler /\ WF_vars(LoopStep)

-----------------------------------------------------------------------------
(* Properties of the continuous-trading loop *)

\* the iteration is over: the loop is back at its top, or in its handler
IterationOver == loop.pc \in {"top", "except", "cooldown", "returned"}

\* C21: in an iteration of the loop update_wallet_stats is called if and
\* only if the trade of the iteration was confirmed with receipt status 1:
\* once after a confirmed trade, never after a trade that reverted, was
\* skipped or raised.
C21_StatsIffConfirmed ==
    /\ loop.updates <= 1
    /\ loop.updates = 1 => loop.receipt = "confirmed"
    /\ (IterationOver /\ loop.receipt = "confirmed") => loop.updates = 1

\* C22: an iteration that ends without an exception has traded a direction
\* whose balance sufficed at the read, taking the opposite direction when
\* the drawn one was short; it ends without a submission only when the USDC
\* balance was below the buy amount and the token balance below the sell
\* amount.
C22_FallsBackToOpposite ==
    /\ (loop.pc = "top" /\ loop.ended = "done") =>
          /\ loop.submitted = 1
          /\ loop.swap = "buy" => loop.usdc_balance >= loop.trade_amount
          /\ loop.swap = "sell" => loop.token_balance >= loop.token_amount
    /\ (loop.pc = "top" /\ loop.ended = "skipped") =>
          /\ loop.submitted = 0
          /\ loop.usdc_balance < loop.trade_amount
          /\ loop.token_balance < loop.token_amount

C22_Witness ==
    /\ loop.pc = "top" /\ loop.ended = "done"
    /\ loop.operation = "sell" /\ loop.swap = "buy"
    /\ loop.token_balance < loop.token_amount

\* C23: the loop ends only when it has read a keypress; an exception of an
\* iteration takes control to the handler, from the handler to the cool-down
\* and from the cool-down to the top of the loop, and this next round is
\* reached.
C23_ExceptionNeverEndsLoop ==
    /\ []((loop.pc = "returned" /\ loop.entered) => loop.stop_read)
    /\ [][/\ (loop'.ended = "raised" /\ loop.ended # "raised") =>
                loop'.pc = "except"
          /\ (loop.pc = "except" /\ loop' # loop) =>
                (loop'.pc = "cooldown" \/ loop'.stop_at # loop.stop_at)
          /\ (loop.pc = "cooldown" /\ loop' # loop) =>
                (loop'.pc = "top" \/ loop'.stop_at # loop.stop_at)]_vars
    /\ (loop.pc = "except") ~> (loop.pc = "top")

C23_Witness == loop.pc = "top" /\ loop.ended = "raised" /\ loop.receipt = "timeout"

\* C24 (as stated): after a keypress has arrived the function returns; a
\* keypress that arrives during the delay, during a trade or during the
\* cool-down is followed by no submission of a trade.
C24_StopEndsBeforeNextTrade ==
    /\ stdin ~> (loop.pc = "returned")
    /\ [](loop.trades_after_stop <= 1)
    /\ [](loop.stop_at \in {"delay", "delay_end", "trade", "cooldown"} =>
             loop.trades_after_stop = 0)

\* C24 (amended): after a keypress has arrived the function returns, and at
\* most one trade is submitted after the arrival; none is when the keypress
\* arrives at the top of the loop, during the delay while a poll of the
\* delay is still to come, during a trade already submitted or during the
\* cool-down. A keypress that arrives during or after the last sleep of the
\* delay is read only at the top of the next round, after the trade.
C24_StopEndsWithinOneTrade ==
    /\ stdin ~> (loop.pc = "returned")
    /\ [](loop.trades_after_stop <= 1)
    /\ [](loop.stop_at \in {"top", "delay", "trade", "cooldown"} =>
             loop.trades_after_stop = 0)

C24_Witness ==
    /\ loop.pc = "returned" /\ loop.stop_read
    /\ loop.stop_at = "delay_end" /\ loop.trades_after_stop = 1

-----------------------------------------------------------------------------
(***************************************************************************)
(* retry_with_backoff and the RPC endpoints (volume_generator.py:58-88,    *)
(* 213-235).                                                               *)
(*                                                                         *)
(* wrapper is the frame of one call of a method decorated with             *)
(* retry_with_backoff(max_retries=5, initial_backoff=1, backoff_factor=2)  *)
(* (run_test_trade). The decorated function is the environment: it returns *)
(* or raises. switch_rpc_endpoint calls initialize_web3, which calls       *)
(* switch_rpc_endpoint again when the endpoint does not connect; whether   *)
(* an endpoint connects is the environment's choice.                       *)
(***************************************************************************)

\* the arguments of the decorator at volume_generator.py:251
max_retries == 5
initial_backoff == 1
backoff_factor == 2

\* len(self.config["rpc_urls"]), volume_generator.py:46-55
NumRpcUrls == 5

\* what the decorated function can do: return, or raise
\* requests.exceptions.HTTPError with a 429 response, with another response
\* or without a response object, web3's TimeExhausted, or anything else
FuncOutcomes == {"value", "HTTPError429", "HTTPError", "HTTPErrorNoResponse",
                 "TimeExhausted", "ValueError"}

\* run_test_trade (volume_generator.py:251-345) returns early when the
\* wallet has too little USDC, and otherwise calls swap_tokens_for_tokens and
\* waits for the receipt of its hash. TimeExhausted comes from a receipt wait
\* that follows the submission of the swap (trader.py:808, re-raised at 860,
\* and volume_generator.py:325); the waits of the approvals swallow it
\* (trader.py:313-320). Every other outcome occurs before or after the
\* submission.
SwapSubmitted(o) == IF o = "TimeExhausted" THEN {TRUE} ELSE BOOLEAN

\* volume_generator.py:69  except (requests.exceptions.HTTPError, TimeExhausted)
Caught(e) ==
    e \in {"HTTPError429", "HTTPError", "HTTPErrorNoResponse", "TimeExhausted"}

\* volume_generator.py:71  hasattr(e, 'response') and e.response.status_code:
\* an HTTPError always has the attribute, and None has no status_code
HandlerRaises(e) == e = "HTTPErrorNoResponse"

\* a plausible slip: one more round of the loop
WhileRetriesInclusive(retries) == retries <= max_retries

\* volume_generator.py:66
WhileRetries(retries) == retries < max_retries

\* a plausible slip: the index is not wrapped around
NextIndexUnwrapped(i) == i + 1

\* volume_generator.py:233
NextIndex(i) == (i + 1) % NumRpcUrls

InitGateway ==
    /\ sw = IdleSw
    /\ ap = IdleAp
    /\ ue = IdleUe
    /\ ret = NoValue
    /\ result = NoValue
    /\ txs = <<>>
    /\ allowance = [t \in Tokens |-> 0]
    /\ balance = [t \in Tokens |-> 0]
    /\ poolCreated = FALSE
    /\ calls = 0
    /\ hist = InitHist
    /\ peers = NoPeers
    /\ supply = IdleSupply
    /\ funding = IdleFunding
    /\ wallets = <<>>
    /\ wallets_file = AbsentFile
    /\ mgr = NoManager
    /\ last = NoCall
    /\ loop = IdleLoop
    /\ stdin = NoKey
    /\ wrapper = IdleWrapper
    /\ current_rpc_index \in 0..(NumRpcUrls - 1)
    /\ calc = NoCalc

\* lines 62-64
wrapper_enter ==
    /\ wrapper.pc = "idle"
    /\ wrapper' = [IdleWrapper EXCEPT !.pc = "while",
                                      !.current_backoff = initial_backoff]
    /\ UNCHANGED current_rpc_index
    /\ UNCHANGED exceptGateway

Leave(outcome) == [wrapper EXCEPT !.pc = "done", !.outcome = outcome]

\* lines 66-69 and 84-85: the loop condition, and one invocation of func
wrapper_while ==
    /\ wrapper.pc = "while"
    /\ IF WhileRetries(wrapper.retries)
       THEN \E o \in FuncOutcomes : \E submitted \in SwapSubmitted(o) :
               LET w == [wrapper EXCEPT !.invocations = @ + 1, !.err = o,
                                        !.switched = 0,
                                        !.failed_at = current_rpc_index,
                                        !.swaps = IF submitted THEN @ + 1
                                                  ELSE @]
               IN wrapper' =
                    IF o = "value" THEN [w EXCEPT !.pc = "done", !.outcome = o]
                    ELSE IF Caught(o) THEN [w EXCEPT !.pc = "except"]
                    ELSE [w EXCEPT !.pc = "done", !.outcome = "raised"]
       ELSE wrapper' = Leave("exhausted")
    /\ UNCHANGED current_rpc_index
    /\ UNCHANGED exceptGateway

\* lines 70-78
wrapper_except ==
    /\ wrapper.pc = "except"
    /\ wrapper' =
         IF HandlerRaises(wrapper.err) THEN Leave("raised")
         ELSE [wrapper EXCEPT
                 !.slept = Append(@, wrapper.current_backoff),
                 !.retries = @ + 1,
                 !.current_backoff = @ * backoff_factor,
                 !.pc = "switch"]
    /\ UNCHANGED current_rpc_index
    /\ UNCHANGED exceptGateway

\* lines 81-82 and 231-234
switch_rpc_endpoint ==
    /\ wrapper.pc = "switch"
    /\ current_rpc_index' = NextIndex(current_rpc_index)
    /\ wrapper' = [wrapper EXCEPT !.pc = "connect", !.switched = @ + 1]
    /\ UNCHANGED exceptGateway

\* lines 213-229: an endpoint that does not connect, or whose provider
\* cannot be built, makes initialize_web3 switch again
initialize_web3 ==
    /\ wrapper.pc = "connect"
    /\ \E is_connected \in BOOLEAN :
          /\ ~is_connected => wrapper.switched <= MaxDeadEndpoints
          /\ wrapper' = [wrapper EXCEPT
                           !.pc = IF is_connected THEN "while" ELSE "switch"]
    /\ UNCHANGED current_rpc_index
    /\ UNCHANGED exceptGateway

NextGateway ==
    \/ wrapper_enter
    \/ wrapper_while
    \/ wrapper_except
    \/ switch_rpc_endpoint
    \/ initialize_web3

SpecGateway == InitGateway /\ [][NextGateway]_vars

-----------------------------------------------------------------------------
(* Properties of retry_with_backoff *)

Retried == wrapper.pc = "while" /\ wrapper.retries > 0

\* C25: the wrapped operation is invoked at most 5 times; it is invoked again
\* only after an HTTPError or a TimeExhausted; the wrapper has slept
\* 2^(k-1) units before the k-th re-invocation; and when the attempts are
\* exhausted the wrapper ends with an exception, not with a value.
C25_BoundedBackoff ==
    /\ wrapper.invocations <= 5
    /\ Retried =>
          /\ wrapper.err \in {"HTTPError429", "HTTPError", "TimeExhausted"}
          /\ Len(wrapper.slept) = wrapper.invocations
    /\ \A k \in DOMAIN wrapper.slept : wrapper.slept[k] = 2 ^ (k - 1)
    /\ (wrapper.pc = "done" /\ wrapper.outcome = "value") =>
          wrapper.err = "value"
    /\ (wrapper.pc = "done" /\ wrapper.retries = 5) =>
          wrapper.outcome = "exhausted"

C25_Witness ==
    /\ wrapper.pc = "done" /\ wrapper.outcome = "exhausted"
    /\ wrapper.invocations = 5
    /\ wrapper.slept = <<1, 2, 4, 8, 16>>

\* C29 (as stated): before each re-invocation the endpoint index has advanced
\* by exactly one position modulo the length of the list, and
\* current_rpc_index is always a valid index of rpc_urls.
C29_AdvancesByOne ==
    /\ current_rpc_index \in 0..(NumRpcUrls - 1)
    /\ Retried =>
          /\ wrapper.switched = 1
          /\ current_rpc_index = (wrapper.failed_at + 1) % NumRpcUrls

\* C29 (amended): before each re-invocation the endpoint index has advanced
\* by one position modulo the length of the list for the retry and by one
\* more for every endpoint that did not connect on the way, and
\* current_rpc_index is always a valid index of rpc_urls.
C29_AdvancesPastDeadEndpoints ==
    /\ current_rpc_index \in 0..(NumRpcUrls - 1)
    /\ Retried =>
          /\ wrapper.switched >= 1
          /\ current_rpc_index =
                (wrapper.failed_at + wrapper.switched) % NumRpcUrls

C29_Witness ==
    /\ Retried
    /\ wrapper.switched = 2
    /\ wrapper.failed_at = NumRpcUrls - 1
    /\ current_rpc_index = 1


\* C34: when no endpoint connects, initialize_web3 and switch_rpc_endpoint
\* stop switching after every configured endpoint has been tried once.
C34_SwitchingStops == wrapper.switched <= NumRpcUrls

\* C35: one call of run_test_trade through its retry_with_backoff wrapper
\* submits at most one swap transaction.
C35_OneSwapPerCall == wrapper.swaps <= 1

-----------------------------------------------------------------------------
(***************************************************************************)
(* Computations (trader.py, supply_release_bot/bot.py).                    *)
(*                                                                         *)
(* calc holds the arguments of one call, drawn in the initial state, and   *)
(* after the call its value. Python floats are modelled by exact           *)
(* rationals: the amounts and prices of the model are far inside the range *)
(* in which int(x * 0.2) is the floor of x / 5 and (2**96)**2 / 2**192 is  *)
(* exactly 1.0.                                                            *)
(***************************************************************************)

\* token addresses, checksummed (as the bot passes them) or in lower case
TokenIds == {"myso", "usdc", "weth"}
TokenAddresses == [id : TokenIds, lower : BOOLEAN]

\* trader.py:35-39  TOKEN_SYMBOLS, keyed by the lower-case address
TOKEN_SYMBOLS ==
    [a \in {t \in TokenAddresses : t.lower} |->
        CASE a.id = "myso" -> "MYSO"
          [] a.id = "usdc" -> "USDC"
          [] a.id = "weth" -> "WETH"]

\* trader.py:246-260
get_token_symbol(token_address) == TOKEN_SYMBOLS[lower(token_address)]

\* a plausible slip: only the token sold is looked at
IsMysoSellAnyOut(token_in_symbol, token_out_symbol) ==
    token_in_symbol = "MYSO"

\* trader.py:755
IsMysoSell(token_in_symbol, token_out_symbol) ==
    token_in_symbol = "MYSO" /\ token_out_symbol = "USDC"

\* trader.py:755-765  1000, or int(amount_in * 0.2)
amount_out_min(token_in, token_out, amount_in) ==
    IF IsMysoSell(get_token_symbol(token_in), get_token_symbol(token_out))
    THEN 1000
    ELSE (amount_in * 2) \div 10

\* sqrtp is counted in units of 2**96 / SqrtUnit
SqrtUnit == 2

Rational(num, den) == [num |-> num, den |-> den]
Inverse(q) == Rational(q.den, q.num)

\* a plausible slip: the square root is not squared
SqrtpAsPrice(sqrtp) == Rational(sqrtp, SqrtUnit * SqrtUnit)

\* bot.py:61  (sqrtp ** 2) / 2**192
SqrtpSquared(sqrtp) == Rational(sqrtp * sqrtp, SqrtUnit * SqrtUnit)

\* bot.py:61  ... * 10 ** (decimals_token0 - decimals_token1)
ScaleByDecimals(q, decimals_token0, decimals_token1) ==
    IF decimals_token0 >= decimals_token1
    THEN Rational(q.num * 10 ^ (decimals_token0 - decimals_token1), q.den)
    ELSE Rational(q.num, q.den * 10 ^ (decimals_token1 - decimals_token0))

\* bot.py:59-64
price_from_sqrtp(sqrtp, decimals_token0, decimals_token1, token1_is_target) ==
    LET price_token1_per_token0 ==
            ScaleByDecimals(SqrtpSquared(sqrtp), decimals_token0,
                            decimals_token1)
    IN IF token1_is_target
       THEN Inverse(price_token1_per_token0)
       ELSE price_token1_per_token0

\* Web3.to_wei(100, 'gwei'), trader.py:173; gas prices are counted in gwei
max_gas_price == 100

\* trader.py:385-397 (the except branch returns max_gas_price)
get_gas_price(current_gas_price) == Min(current_gas_price, max_gas_price)

\* the factor of each submission, in tenths: trader.py:296, 773, 473, 494
GasSites == {"approve", "swap", "recovery_approve", "recovery_swap", "unwrap"}
Tenths(site) ==
    CASE site = "approve" -> 12
      [] site = "swap" -> 14
      [] site \in {"recovery_approve", "recovery_swap", "unwrap"} -> 8

\* int(self.w3.eth.gas_price * factor): the live price, not get_gas_price()
transaction_gas_price(site, live_gas_price) ==
    (live_gas_price * Tenths(site)) \div 10

\* fee tiers a configuration file or a caller may name (hundredths of a bip)
FeeTiers == {300, 500, 3000, 10000}

\* volume_generator.py:98  DEFAULT_CONFIG["pool_fee"]
DefaultPoolFee == 3000

\* volume_generator.py:120-191  the pool_fee of the configuration after
\* __init__: the default, updated from the file, then overwritten
config_pool_fee(in_file, file_pool_fee) ==
    LET config == [pool_fee |-> DefaultPoolFee]
        updated == IF in_file
                   THEN [config EXCEPT !.pool_fee = file_pool_fee]
                   ELSE config
    IN [updated EXCEPT !.pool_fee = 3000].pool_fee

\* a plausible slip: the fee argument is used as received
getPool_fee_as_given(fee) == fee

\* trader.py:411-420  the fee of the getPool query of check_pool_exists
getPool_fee(fee) ==
    LET forced == 3000 IN forced

\* trader.py:727-729, 780-783  the getPool query and the exactInputSingle
\* call of swap_tokens_for_tokens; pool_key is not read
swap_tokens_for_tokens_fees(pool_key) ==
    LET fee == 3000
    IN [getPool |-> {getPool_fee(fee)}, exactInputSingle |-> {fee}]

\* trader.py:601-604  swap_usdc_for_eth makes no pool query
swap_usdc_for_eth_fees ==
    [getPool |-> {}, exactInputSingle |-> {3000}]

FeeEntries ==
    {"__init__", "check_pool_exists", "swap_tokens_for_tokens",
     "swap_usdc_for_eth"}

\* the fees one entry point puts in its configuration, queries and swaps
pool_fees(entry, in_file, file_pool_fee, fee, pool_key) ==
    CASE entry = "__init__" ->
            [config |-> {config_pool_fee(in_file, file_pool_fee)},
             getPool |-> {}, exactInputSingle |-> {}]
      [] entry = "check_pool_exists" ->
            [config |-> {}, getPool |-> {getPool_fee(fee)},
             exactInputSingle |-> {}]
      [] entry = "swap_tokens_for_tokens" ->
            [config |-> {}] @@ swap_tokens_for_tokens_fees(pool_key)
      [] entry = "swap_usdc_for_eth" ->
            [config |-> {}] @@ swap_usdc_for_eth_fees

Decimals == {17, 18}

CalcInputs ==
    [fn : {"amount_out_min"}, done : {FALSE}, token_in : TokenAddresses,
     token_out : TokenAddresses, amount_in : 0..MaxAmountIn]
    \cup
    [fn : {"price_from_sqrtp"}, done : {FALSE}, sqrtp : 1..MaxSqrtp,
     decimals_token0 : Decimals, decimals_token1 : Decimals,
     token1_is_target : BOOLEAN]
    \cup
    [fn : {"gas_price"}, done : {FALSE}, site : GasSites,
     live_gas_price : 0..MaxLiveGas]
    \cup
    [fn : {"pool_fees"}, done : {FALSE}, entry : FeeEntries,
     in_file : BOOLEAN, file_pool_fee : FeeTiers, fee : FeeTiers,
     pool_key : [fee : FeeTiers]]

InitCalc ==
    /\ sw = IdleSw
    /\ ap = IdleAp
    /\ ue = IdleUe
    /\ ret = NoValue
    /\ result = NoValue
    /\ txs = <<>>
    /\ allowance = [t \in Tokens |-> 0]
    /\ balance = [t \in Tokens |-> 0]
    /\ poolCreated = FALSE
    /\ calls = 0
    /\ hist = InitHist
    /\ peers = NoPeers
    /\ supply = IdleSupply
    /\ funding = IdleFunding
    /\ wallets = <<>>
    /\ wallets_file = AbsentFile
    /\ mgr = NoManager
    /\ last = NoCall
    /\ loop = IdleLoop
    /\ stdin = NoKey
    /\ wrapper = IdleWrapper
    /\ current_rpc_index = 0
    /\ calc \in {c \in CalcInputs :
                    c.fn = "amount_out_min" => c.token_in.id # c.token_out.id}

Done(value) == [c \in {"value"} |-> value] @@ [calc EXCEPT !.done = TRUE]

call_amount_out_min ==
    /\ calc.fn = "amount_out_min" /\ ~calc.done
    /\ calc' = Done(amount_out_min(calc.token_in, calc.token_out,
                                   calc.amount_in))
    /\ UNCHANGED exceptCalc

call_price_from_sqrtp ==
    /\ calc.fn = "price_from_sqrtp" /\ ~calc.done
    /\ calc' = Done(price_from_sqrtp(calc.sqrtp, calc.decimals_token0,
                                     calc.decimals_token1,
                                     calc.token1_is_target))
    /\ UNCHANGED exceptCalc

call_gas_price ==
    /\ calc.fn = "gas_price" /\ ~calc.done
    /\ calc' = Done(transaction_gas_price(calc.site, calc.live_gas_price))
    /\ UNCHANGED exceptCalc

call_pool_fees ==
    /\ calc.fn = "pool_fees" /\ ~calc.done
    /\ calc' = Done(pool_fees(calc.entry, calc.in_file, calc.file_pool_fee,
                              calc.fee, calc.pool_key))
    /\ UNCHANGED exceptCalc

NextCalc ==
    \/ call_amount_out_min
    \/ call_price_from_sqrtp
    \/ call_gas_price
    \/ call_pool_fees

SpecCalc == InitCalc /\ [][NextCalc]_vars

-----------------------------------------------------------------------------
(* Properties of the computations *)

Computed(fn) == calc.fn = fn /\ calc.done

WithinMillionthOfOne(q) ==
    \/ q.num = q.den
    \/ /\ q.num > q.den
       /\ q.den \div (q.num - q.den) >= 1000000
    \/ /\ q.num < q.den
       /\ q.den \div (q.den - q.num) >= 1000000

\* C27: price_from_sqrtp(2**96, 18, 18, token1_is_target) is 1.0 within
\* 1e-6, for both values of token1_is_target.
C27_UnitPrice ==
    (/\ Computed("price_from_sqrtp")
     /\ calc.sqrtp = SqrtUnit
     /\ calc.decimals_token0 = 18 /\ calc.decimals_token1 = 18) =>
        WithinMillionthOfOne(calc.value)

C27_Witness ==
    /\ Computed("price_from_sqrtp")
    /\ calc.sqrtp = SqrtUnit
    /\ calc.decimals_token0 = 18 /\ calc.decimals_token1 = 18
    /\ calc.token1_is_target
    /\ calc.value = Rational(4, 4)

\* C28: the gas price of a submitted transaction is at most the caller's
\* factor times the ceiling max_gas_price (1.4 for swaps, 1.2 for approvals,
\* 0.8 for the recovery transactions), whatever the live gas price is.
C28_GasPriceClamped ==
    Computed("gas_price") =>
        calc.value <= (max_gas_price * Tenths(calc.site)) \div 10

-----------------------------------------------------------------------------
(***************************************************************************)
(* Two managers on one wallets file (multi_wallet_manager.py).             *)
(*                                                                         *)
(* The bot holds a MultiWalletManager for as long as it runs               *)
(* (volume_generator.py:198), and every CLI command constructs its own     *)
(* (volume_generator.py:639, 655, 911). Each has its own self.wallets; the *)
(* file is shared. The calls are interleaved call by call: one call reads  *)
(* the file, computes and writes it back before the next call starts.      *)
(***************************************************************************)

MaxPeerWallets == 2

PeerKnownKeys ==
    {d.private_key : d \in Range(wallets_file.data)} \cup
    UNION {{w.private_key : w \in Range(peers.wallets[m])} : m \in Managers}

\* Account.create(): a key that no wallet has
peer_new_wallet ==
    LET private_key == 1 + Cardinality(PeerKnownKeys)
    IN [private_key |-> private_key, address |-> AddressOf(private_key)]

PeerCalled(m, name) ==
    [by |-> m, name |-> name, before |-> wallets_file.data]

InitPeers ==
    /\ sw = IdleSw
    /\ ap = IdleAp
    /\ ue = IdleUe
    /\ ret = NoValue
    /\ result = NoValue
    /\ txs = <<>>
    /\ allowance = [t \in Tokens |-> 0]
    /\ balance = [t \in Tokens |-> 0]
    /\ poolCreated = FALSE
    /\ calls = 0
    /\ hist = InitHist
    /\ peers = NoPeers
    /\ supply = IdleSupply
    /\ funding = IdleFunding
    /\ wallets = <<>>
    /\ wallets_file = AbsentFile
    /\ mgr = NoManager
    /\ last = NoCall
    /\ loop = IdleLoop
    /\ stdin = NoKey
    /\ wrapper = IdleWrapper
    /\ current_rpc_index = 0
    /\ calc = NoCalc

\* multi_wallet_manager.py:19-46  MultiWalletManager(path) in process m
peer_init(m) ==
    /\ ~peers.up[m]
    /\ IF ~os_path_exists
       THEN /\ wallets_file' = WrittenFile(<<>>)
            /\ peers' = [peers EXCEPT !.up[m] = TRUE, !.wallets[m] = <<>>,
                                      !.call = PeerCalled(m, "__init__")]
       ELSE /\ peers' = [peers EXCEPT
                           !.up[m] = TRUE,
                           !.wallets[m] = IF JsonLoads
                                          THEN LoadedWallets(wallets_file.data)
                                          ELSE <<>>,
                           !.call = PeerCalled(m, "__init__")]
            /\ UNCHANGED wallets_file
    /\ UNCHANGED exceptPeers

\* multi_wallet_manager.py:87-113
peer_create_wallet(m) ==
    /\ peers.up[m]
    /\ Cardinality(PeerKnownKeys) < MaxPeerWallets
    /\ LET wallet_info == peer_new_wallet
           memory == Append(peers.wallets[m],
                            Wallet(wallet_info.private_key))
       IN /\ peers' = [peers EXCEPT !.wallets[m] = memory,
                                    !.call = PeerCalled(m, "create_wallet")]
          /\ wallets_file' =
                WrittenFile(Append(get_wallet_data(memory),
                                   NewWalletData(wallet_info)))
    /\ UNCHANGED exceptPeers

\* multi_wallet_manager.py:150-170
peer_update_wallet_stats(m) ==
    /\ peers.up[m]
    /\ TotalTrades(wallets_file.data) < MaxTrades
    /\ \E w \in Range(peers.wallets[m]), trade_amount_usd \in TradeAmounts :
          wallets_file' =
             WrittenFile(UpdatedStats(get_wallet_data(peers.wallets[m]),
                                      get_address(w), trade_amount_usd))
    /\ peers' = [peers EXCEPT !.call = PeerCalled(m, "update_wallet_stats")]
    /\ UNCHANGED exceptPeers

\* multi_wallet_manager.py:172-197
peer_deactivate_wallets(m) ==
    /\ peers.up[m]
    /\ \E count \in 1..MaxPeerWallets :
          LET deactivated == Deactivated(peers.wallets[m], count)
              memory == Remaining(peers.wallets[m], count)
              wallets_data == get_wallet_data(memory)
          IN /\ peers' = [peers EXCEPT
                            !.wallets[m] = memory,
                            !.call = PeerCalled(m, "deactivate_wallets")]
             /\ wallets_file' =
                   WrittenFile([i \in 1..Len(wallets_data) |->
                                  IF wallets_data[i].address
                                         \in Range(deactivated)
                                  THEN [wallets_data[i] EXCEPT
                                          !.active = FALSE]
                                  ELSE wallets_data[i]])
    /\ UNCHANGED exceptPeers

NextPeers ==
    \E m \in Managers :
       \/ peer_init(m)
       \/ peer_create_wallet(m)
       \/ peer_update_wallet_stats(m)
       \/ peer_deactivate_wallets(m)

SpecPeers == InitPeers /\ [][NextPeers]_vars

\* C36: create_wallet and update_wallet_stats of either manager leave every
\* record that was in the file in the file, at its place, with its address
\* and with the active flag it had.
C36_OthersUntouched ==
    peers.call.name \in {"create_wallet", "update_wallet_stats"} =>
        \A i \in DOMAIN peers.call.before :
            /\ i \in DOMAIN wallets_file.data
            /\ wallets_file.data[i].address = peers.call.before[i].address
            /\ wallets_file.data[i].active = peers.call.before[i].active


-----------------------------------------------------------------------------
(***************************************************************************)
(* The supply release bot (scripts/supply_release_bot/bot.py).             *)
(*                                                                         *)
(* supply.released is self.state["released"], supply.stored the state      *)
(* file; supply.minted is what the token contract has minted on the bot's  *)
(* transactions, and supply.pending the amount of a mint transaction whose *)
(* receipt wait ended without a receipt. The price, the total supply and   *)
(* the chain are the environment.                                          *)
(***************************************************************************)

\* config["release_cap"], and the runs and amounts explored
ReleaseCap == 2
MaxRuns == 3
MaxMintAmount == 2

\* bot.py:96-104, with `uncapped` for int(total_supply * deviation * 0.1)
calculate_mint_amount(deviation_positive, uncapped, released) ==
    IF ~deviation_positive THEN 0
    ELSE LET remaining == ReleaseCap - released
         IN Min(uncapped, remaining)

InitSupply ==
    /\ sw = IdleSw
    /\ ap = IdleAp
    /\ ue = IdleUe
    /\ ret = NoValue
    /\ result = NoValue
    /\ txs = <<>>
    /\ allowance = [t \in Tokens |-> 0]
    /\ balance = [t \in Tokens |-> 0]
    /\ poolCreated = FALSE
    /\ calls = 0
    /\ hist = InitHist
    /\ peers = NoPeers
    /\ supply = IdleSupply
    /\ funding = IdleFunding
    /\ wallets = <<>>
    /\ wallets_file = AbsentFile
    /\ mgr = NoManager
    /\ last = NoCall
    /\ loop = IdleLoop
    /\ stdin = NoKey
    /\ wrapper = IdleWrapper
    /\ current_rpc_index = 0
    /\ calc = NoCalc

\* an exception is logged by run() (bot.py:142-143)
RunEnds == [supply EXCEPT !.pc = "idle", !.amount = 0]

\* bot.py:127-141 and 107-108: run() up to the mint transaction
supply_run ==
    /\ supply.pc = "idle"
    /\ supply.runs < MaxRuns
    /\ \E above_threshold \in BOOLEAN, uncapped \in 0..MaxMintAmount :
          LET amount == calculate_mint_amount(above_threshold, uncapped,
                                              supply.released)
              started == [supply EXCEPT !.runs = @ + 1]
          IN supply' =
               IF ~above_threshold THEN started
               ELSE IF supply.released >= ReleaseCap THEN started
               ELSE IF amount > 0
               THEN [started EXCEPT !.pc = "mint", !.amount = amount]
               ELSE started
    /\ UNCHANGED exceptSupply

\* bot.py:109-119: the mint transaction is built, signed and sent
mint_send ==
    /\ supply.pc = "mint"
    /\ \/ supply' = [supply EXCEPT !.pc = "mint_wait"]
       \/ supply' = RunEnds
    /\ UNCHANGED exceptSupply

\* bot.py:120: the receipt is awaited and its status is not read
mint_receipt ==
    /\ supply.pc = "mint_wait"
    /\ \E outcome \in {"ok", "reverted", "timeout"} :
          supply' =
            CASE outcome = "ok" ->
                    [supply EXCEPT !.pc = "sell", !.minted = @ + supply.amount]
              [] outcome = "reverted" -> [supply EXCEPT !.pc = "sell"]
              [] outcome = "timeout" ->
                    [RunEnds EXCEPT !.pending = @ + supply.amount]
    /\ UNCHANGED exceptSupply

\* bot.py:121-124: the sale; swap_tokens_for_tokens returns a hash or raises
mint_and_sell ==
    /\ supply.pc = "sell"
    /\ \E sold \in BOOLEAN :
          supply' =
            IF sold
            THEN [RunEnds EXCEPT
                    !.released = @ + supply.amount,
                    !.stored = supply.released + supply.amount]
            ELSE RunEnds
    /\ UNCHANGED exceptSupply

\* the chain mines a mint transaction nobody waits for any more
mint_mined_late ==
    /\ supply.pending > 0
    /\ \E status \in {"ok", "reverted"} :
          supply' = [supply EXCEPT
                       !.pending = 0,
                       !.minted = IF status = "ok" THEN @ + supply.pending
                                  ELSE @]
    /\ UNCHANGED exceptSupply

NextSupply ==
    \/ supply_run
    \/ mint_send
    \/ mint_receipt
    \/ mint_and_sell
    \/ mint_mined_late

SpecSupply == InitSupply /\ [][NextSupply]_vars

\* C38: over any sequence of runs the bot has minted at most release_cap
\* tokens, and between runs the persisted released amount is the amount
\* minted.
C38_MintedWithinCap ==
    /\ supply.minted <= ReleaseCap
    /\ (supply.pc = "idle" /\ supply.pending = 0) =>
          supply.stored = supply.minted


-----------------------------------------------------------------------------
(***************************************************************************)
(* fund_wallets (volume_generator.py:650-895).                             *)
(*                                                                         *)
(* The function runs the same two loops twice, for the ETH transfers       *)
(* (719-805) and for the USDC transfers (810-889): a loop that sends one   *)
(* transfer per wallet with a locally tracked nonce, then up to three      *)
(* rounds of receipt checks. funding is one such pass; funding.sent are    *)
(* the transfers the node accepted, with the nonce each was signed with.   *)
(* The chain mines a transfer only when every lower nonce of the treasury  *)
(* has been mined.                                                         *)
(***************************************************************************)

MaxFundWallets == 3

\* max_eth_attempts, max_usdc_attempts
max_attempts == 3

\* w3.eth.get_transaction_count(treasury_address, 'pending')
PendingNonces == {0, 4}

\* volume_generator.py:757-762 and 846-849: the nonce after a send that
\* raised
NonceAfterFailure(nonce) == nonce + 1

\* every nonce below that of transfer k, from the first one of the pass on,
\* is the nonce of a mined transfer
Minable(k) ==
    \A n \in funding.first_nonce..(funding.sent[k].nonce - 1) :
       \E j \in DOMAIN funding.sent :
          /\ funding.sent[j].nonce = n
          /\ funding.sent[j].status # "pending"

\* what wait_for_transaction_receipt under asyncio.wait_for(timeout=20) can
\* give for transfer k: its receipt, as it is or as the chain makes it now,
\* or a timeout
ReceiptOutcomes(k) ==
    CASE funding.sent[k].status # "pending" ->
            {funding.sent[k].status, "timeout"}
      [] Minable(k) -> {"ok", "reverted", "timeout"}
      [] OTHER -> {"timeout"}

InitFunding ==
    /\ sw = IdleSw
    /\ ap = IdleAp
    /\ ue = IdleUe
    /\ ret = NoValue
    /\ result = NoValue
    /\ txs = <<>>
    /\ allowance = [t \in Tokens |-> 0]
    /\ balance = [t \in Tokens |-> 0]
    /\ poolCreated = FALSE
    /\ calls = 0
    /\ hist = InitHist
    /\ peers = NoPeers
    /\ supply = IdleSupply
    /\ funding = IdleFunding
    /\ wallets = <<>>
    /\ wallets_file = AbsentFile
    /\ mgr = NoManager
    /\ last = NoCall
    /\ loop = IdleLoop
    /\ stdin = NoKey
    /\ wrapper = IdleWrapper
    /\ current_rpc_index = 0
    /\ calc = NoCalc

\* lines 658-661, 719, 810: the wallets of the manager and the first nonce
fund_wallets ==
    /\ funding.pc = "idle"
    /\ \E n \in 0..MaxFundWallets, asset \in {"ETH", "USDC"},
          nonce \in PendingNonces :
          funding' =
            IF n = 0 THEN [IdleFunding EXCEPT !.pc = "done"]
            ELSE [IdleFunding EXCEPT !.pc = "send", !.asset = asset,
                                     !.n = n, !.i = 1,
                                     !.first_nonce = nonce, !.nonce = nonce]
    /\ UNCHANGED exceptFunding

\* lines 726-762 and 815-849: one round of the sending loop
send_transfer ==
    /\ funding.pc = "send"
    /\ IF funding.i > funding.n
       THEN funding' = [funding EXCEPT !.pc = "while"]
       ELSE \E accepted \in BOOLEAN :
              funding' =
                IF accepted
                THEN [funding EXCEPT
                        !.sent = Append(@, [nonce |-> funding.nonce,
                                            status |-> "pending"]),
                        !.nonce = @ + 1,
                        !.i = @ + 1]
                ELSE [funding EXCEPT
                        !.nonce = NonceAfterFailure(@),
                        !.i = @ + 1]
    /\ UNCHANGED exceptFunding

\* lines 771-773 and 855-857: the loop condition and the start of a round,
\* where confirmed_hashes is set to a new empty set
confirm_while ==
    /\ funding.pc = "while"
    /\ funding' =
         IF /\ funding.confirmations < Len(funding.sent)
            /\ funding.attempts < max_attempts
         THEN [funding EXCEPT !.pc = "check", !.attempts = @ + 1,
                              !.confirmed_hashes = {}, !.i = 1]
         ELSE [funding EXCEPT !.pc = "done"]
    /\ UNCHANGED exceptFunding

\* lines 775-798 and 859-882: one round of the for loop over the hashes
check_receipt ==
    /\ funding.pc = "check"
    /\ IF funding.i > Len(funding.sent)
       THEN funding' = [funding EXCEPT !.pc = "while"]
       ELSE LET k == funding.i IN
            IF k \in funding.confirmed_hashes
            THEN funding' = [funding EXCEPT !.i = @ + 1]
            ELSE \E outcome \in ReceiptOutcomes(k) :
                   funding' =
                     CASE outcome = "ok" ->
                             [funding EXCEPT
                                !.sent[k].status = "ok",
                                !.confirmed_hashes = @ \cup {k},
                                !.confirmations = @ + 1,
                                !.i = @ + 1]
                       [] outcome = "reverted" ->
                             [funding EXCEPT !.sent[k].status = "reverted",
                                             !.i = @ + 1]
                       [] outcome = "timeout" ->
                             [funding EXCEPT !.i = @ + 1]
    /\ UNCHANGED exceptFunding

NextFunding ==
    \/ fund_wallets
    \/ send_transfer
    \/ confirm_while
    \/ check_receipt

SpecFunding == InitFunding /\ [][NextFunding]_vars

\* C39: the confirmation counter never exceeds the number of transfers
\* submitted and is the number of distinct submitted transfers with a
\* status-1 receipt.
C39_CountsDistinctConfirmed ==
    /\ funding.confirmations <= Len(funding.sent)
    /\ funding.confirmations =
          Cardinality({k \in DOMAIN funding.sent :
                          funding.sent[k].status = "ok"})

\* C40: the nonces of the transfers submitted are consecutive from the
\* treasury's pending nonce on, without a gap.
C40_NoncesConsecutive ==
    \A k \in DOMAIN funding.sent :
       funding.sent[k].nonce = funding.first_nonce + k - 1

====
